---- MODULE Spec2Model ----
(***************************************************************************)
(* Verification model of openclaw-mem (src/openclaw_mem/cli.py and         *)
(* src/openclaw_mem/vector.py).                                            *)
(*                                                                         *)
(* The module holds one state machine per subsystem.  Every subsystem has  *)
(* its own variables, its own Init and Next, and its own specification;    *)
(* the variables of the other subsystems are parked at a fixed value.      *)
(*                                                                         *)
(*   SpecRrf           vector.rank_rrf as a pure function                  *)
(*   SpecHybrid        cli._hybrid_retrieve and cli.cmd_hybrid             *)
(*   SpecPack          cli.cmd_pack                                        *)
(*   SpecHarvest       cli.cmd_harvest, run after run on one log           *)
(*   SpecHarvestPair   cli.cmd_harvest run by two processes at once        *)
(*   SpecTriage        cli.cmd_triage, run after run on one state file     *)
(*   SpecTriageSwitch  the same with a mode that changes between runs      *)
(*   SpecCapture       cli.cmd_graph_capture_git, cli.cmd_graph_capture_md *)
(*   SpecCaptureCrash  the same with runs interrupted before the state     *)
(*                     file is written                                     *)
(*   SpecIngest        cli._insert_observation and its callers             *)
(*   SpecWriteback     cli.cmd_writeback_lancedb and its bridge child      *)
(*   SpecGraph         cli.cmd_graph_index, cmd_graph_pack and             *)
(*                     cmd_graph_preflight: the text they emit             *)
(*   SpecState         cli._atomic_write_json and cli._atomic_write        *)
(***************************************************************************)
EXTENDS Integers, Sequences, FiniteSets, TLC

VARIABLES
    \* ---- rank_rrf (vector.py) ----
    rrf_pc,          \* "input" | "done"
    ranked_lists,    \* the argument ranked_lists: a sequence of id sequences
    rrf_k,           \* the argument k
    rrf_limit,       \* the argument limit
    rrf_out,         \* the returned list of <<id, score numerator>>
    \* ---- retrieval inputs shared by hybrid and pack (cli.py) ----
    fts_match,       \* ids matched by the FTS query, in bm25 order
    vec_match,       \* ids of the embeddings table, in cosine order
    vec_en_match,    \* ids ranked for the English query vector (<<>> without query_en)
    obs_table,       \* observations table: id -> text length, or NoRow
    arg_limit,       \* args.limit
    \* ---- cmd_hybrid (cli.py) ----
    hy_pc,           \* "start" | "done" | "exit1"
    rerank_provider, \* args.rerank_provider
    rerank_key,      \* TRUE iff _resolve_rerank_api_key finds a key
    rerank_topn,     \* args.rerank_topn (0: not given, falls back to the limit)
    rerank_outcome,  \* what _call_rerank_provider did: "not_called", "exception" or the returned rows
    hy_state,        \* the dict returned by _hybrid_retrieve
    hy_out,          \* the list emitted by cmd_hybrid
    \* ---- cmd_pack (cli.py) ----
    pack_pc,         \* "start" | "loop" | "emitted" | "exit1" | "exit2"
    arg_budget_tokens, \* args.budget_tokens
    pack_state,      \* state = _hybrid_retrieve(...)
    selected_items,  \* ids of the items appended to selected_items
    used_tokens,     \* the running sum of included token estimates
    candidate_trace, \* one [id, included, reason] per processed candidate
    pack_payload,    \* the emitted payload
    \* ---- cmd_harvest (cli.py) ----
    source_name,     \* args.source: the file name of the live log, as its dot-separated parts
    archive_dir,     \* TRUE iff args.archive_dir is given
    hv_now,          \* the UTC clock, in seconds
    live_log,        \* the lines of the live log (<<>>: missing or empty)
    next_rec,        \* the next record the producer appends to the live log
    bad_lines,       \* number of malformed lines written so far
    log_dir,         \* the *.processing files beside the log: [name, lines]
    archive_files,   \* the files of the archive directory: [name, lines]
    store,           \* the committed observations, in insertion order
    hv_pc,           \* "idle" | "ingest" | "index" | "embed" | "archive" | "emit"
    hv_runs,         \* number of harvest runs started
    hv_run,          \* the locals of the running cmd_harvest
    hv_start,        \* what the last started run found at startup
    hv_exit,         \* how the last run ended: "none" | "exit0" | "exit1" | "traceback" | "interrupted"
    hv_receipt,      \* the payload the last run emitted
    \* ---- cmd_triage (cli.py) ----
    tri_mode,        \* args.mode
    tri_limit,       \* args.limit
    tri_now,         \* the clock, in ticks
    tri_obs,         \* the observations table: tri_obs[id] = [ts, kind]
    cron_jobs,       \* the cron store: job -> [bad, run]
    tri_state,       \* the triage state file: the three watermarks
    tri_dirty,       \* TRUE iff data was written after the last triage run
    tri_last,        \* the last triage run: exit code, reported ids and run stamps,
                     \* watermarks read, whether no data was written since the run before
    \* ---- cmd_graph_capture_git and cmd_graph_capture_md (cli.py) ----
    cap_tool,        \* the capture command the job runs: "git" | "md"
    cap_now,         \* the clock, in ticks
    cap_obs,         \* the observations the two tools inserted: [tool, key], in insertion order
    git_commits,     \* the repository's history, oldest first: [adate, cdate, files]; the sha is the index
    git_max_commits, \* args.max_commits
    git_state,       \* the state file's entry of the repository: [last_author_ts, last_sha]
    git_seen,        \* the shas of table graph_capture_git_seen
    git_dirty,       \* TRUE iff the repository changed after the last completed capture-git run
    git_last,        \* the last capture-git run: its summary, and whether the repository was unchanged
    md_file,         \* the Markdown file: [mtime, sections], a section being its fingerprint
    md_max_sections, \* args.max_sections_per_file
    md_state,        \* the state file's mtime of the file, or NoTs
    md_seen,         \* the fingerprints of table graph_capture_md_seen
    md_dirty,        \* TRUE iff the file was written after the last completed capture-md run
    md_last,         \* the last capture-md run: its totals, and whether the file was unchanged
    \* ---- _insert_observation and the commands that call it (cli.py) ----
    ins_cmd,         \* the command: "ingest" | "harvest" | "store" | "capture_git" | "capture_md"
    ins_scorer,      \* OPENCLAW_MEM_IMPORTANCE_SCORER after the override of the command
    ins_pc,          \* "run" | "done" | "exit1" | "killed"
    ins_left,        \* records the command has still to insert
    ins_tx,          \* the rows of the open transaction: [importance, fts]
    ins_db,          \* the committed rows: [importance, fts]
    ins_summary,     \* the IngestRunSummary of the run
    ins_warnings,    \* warnings printed to stderr by the run
    ins_errors,      \* totals["errors"] of capture-md
    ins_last,        \* the last call of _insert_observation: its record, what happened, the counters before
    \* ---- writeback-lancedb and its bridge child (cli.py) ----
    wb_args,         \* the command line: force, force_fields, dry_run, batch
    wb_prepared,     \* the updates prepared from the ledger, in order
    wb_columns,      \* the columns of the external table
    wb_table,        \* the external table: row id -> row
    wb_pc,           \* "start" | "bridge" | "done"
    wb_force_fields, \* force_fields as computed by the command
    wb_i,            \* index in wb_prepared of the first update of the running batch
    wb_item,         \* position of the bridge child in its batch
    wb_summary,      \* the summary the running bridge child has built
    wb_totals,       \* the totals the command has aggregated
    wb_batches,      \* how each bridge child that has ended did end
    wb_exit,         \* exit code of the command, NoExit while it runs
    wb_out,          \* the payload the command emitted
    \* graph index, pack and preflight
    gr_args,         \* budget_tokens, scope given or not, take
    gr_rows,         \* the rows the search (index, preflight) or the ids (pack) select
    gr_neighbors,    \* the rows suggested as next expansions
    gr_cmd,          \* "none" before the command ran, then its name
    gr_text,         \* the text the command emitted, a sequence of characters
    \* state files
    st_dir,          \* the directory of the state file: name -> content or NoFile
    st_pc,           \* per writer: "idle", "open" (temporary file open), "closed"
    st_tmp,          \* per writer: the name of its temporary file
    st_writes,       \* writes begun so far; write n writes state version n
    st_loaded,       \* what the last load of the state file read
    \* two harvest processes
    hp_now,          \* the clock, in seconds
    hp_live,         \* the lines of the live log
    hp_next_rec,     \* the id of the next record the producer writes
    hp_dir,          \* the processing files in the directory of the log
    hp_store,        \* the committed observations, in insertion order
    hp_proc,         \* per process: pc, processing_files, next, rotated
    hp_runs,         \* runs started
    hp_ingests       \* the commits of step 3: which process ingested which file

rrfVars == <<rrf_pc, ranked_lists, rrf_k, rrf_limit, rrf_out>>

retrVars == <<fts_match, vec_match, vec_en_match, obs_table, arg_limit>>

hyVars == <<hy_pc, rerank_provider, rerank_key, rerank_topn, rerank_outcome, hy_state, hy_out>>

packVars == <<pack_pc, arg_budget_tokens, pack_state, selected_items, used_tokens, candidate_trace, pack_payload>>

harvestVars == <<source_name, archive_dir, hv_now, live_log, next_rec, bad_lines, log_dir, archive_files, store, hv_pc, hv_runs, hv_run, hv_start, hv_exit, hv_receipt>>

triageVars == <<tri_mode, tri_limit, tri_now, tri_obs, cron_jobs, tri_state, tri_dirty, tri_last>>

captureVars == <<cap_tool, cap_now, cap_obs, git_commits, git_max_commits, git_state, git_seen, git_dirty, git_last, md_file, md_max_sections, md_state, md_seen, md_dirty, md_last>>

ingestVars == <<ins_cmd, ins_scorer, ins_pc, ins_left, ins_tx, ins_db, ins_summary, ins_warnings, ins_errors, ins_last>>

writebackVars == <<wb_args, wb_prepared, wb_columns, wb_table, wb_pc, wb_force_fields, wb_i, wb_item, wb_summary, wb_totals, wb_batches, wb_exit, wb_out>>

graphVars == <<gr_args, gr_rows, gr_neighbors, gr_cmd, gr_text>>

stateVars == <<st_dir, st_pc, st_tmp, st_writes, st_loaded>>

harvestPairVars == <<hp_now, hp_live, hp_next_rec, hp_dir, hp_store, hp_proc, hp_runs, hp_ingests>>

vars == <<rrfVars, retrVars, hyVars, packVars, harvestVars, triageVars, captureVars, ingestVars, writebackVars, graphVars, stateVars, harvestPairVars>>

(***************************************************************************)
(* Generic helpers                                                         *)
(***************************************************************************)
Range(s) == {s[i] : i \in 1..Len(s)}

Min2(a, b) == IF a <= b THEN a ELSE b

Max2(a, b) == IF a >= b THEN a ELSE b

\* s[:n] of Python for n >= 0
Take(s, n) == SubSeq(s, 1, Min2(n, Len(s)))

\* all sequences over S of length 0..n
SeqsUpTo(S, n) == UNION {[1..m -> S] : m \in 0..n}

\* sequences over S of length 0..n without a repeated element
NoDupSeqsUpTo(S, n) ==
    {s \in SeqsUpTo(S, n) : \A i, j \in 1..Len(s) : i # j => s[i] # s[j]}

(***************************************************************************)
(* Bounds                                                                  *)
(***************************************************************************)
MaxId == 2          \* observation ids are 1..MaxId
MaxListLen == 2     \* longest ranked list handed to rank_rrf
MaxLists == 2       \* number of ranked lists handed to rank_rrf
MaxK == 1           \* k is drawn from 0..MaxK

Ids == 1..MaxId

(***************************************************************************)
(* vector.rank_rrf                                                         *)
(*                                                                         *)
(* Scores are the rationals 1/(k + rank + 1).  They are kept exact as      *)
(* numerators over the common denominator RrfDenom(k), so that two ids     *)
(* tie in the model exactly when their accumulators are equal.             *)
(***************************************************************************)
RECURSIVE ProdRange(_, _)
ProdRange(a, b) == IF a > b THEN 1 ELSE a * ProdRange(a + 1, b)

\* common denominator of 1/(k+1) .. 1/(k+MaxListLen+1)
RrfDenom(k) == ProdRange(k + 1, k + MaxListLen + 1)

\* 1.0 / (k + rank + 1), rank 0-based, as a numerator over RrfDenom(k)
RrfTerm(k, rank) == RrfDenom(k) \div (k + rank + 1)

\* the contribution of one ranking to the accumulator of item_id
RECURSIVE RankingScore(_, _, _, _)
RankingScore(ranking, item_id, k, i) ==
    IF i > Len(ranking) THEN 0
    ELSE (IF ranking[i] = item_id THEN RrfTerm(k, i - 1) ELSE 0)
         + RankingScore(ranking, item_id, k, i + 1)

\* scores[item_id] after the two nested loops
RECURSIVE RrfScore(_, _, _, _)
RrfScore(lists, item_id, k, n) ==
    IF n > Len(lists) THEN 0
    ELSE RankingScore(lists[n], item_id, k, 1) + RrfScore(lists, item_id, k, n + 1)

\* the concatenation of the rankings, in iteration order
RECURSIVE Flatten(_)
Flatten(lists) == IF lists = <<>> THEN <<>> ELSE Head(lists) \o Flatten(Tail(lists))

\* the keys of the dict `scores` in insertion order: first appearance
RECURSIVE FirstSeen(_, _)
FirstSeen(s, acc) ==
    IF s = <<>> THEN acc
    ELSE FirstSeen(Tail(s), IF Head(s) \in Range(acc) THEN acc ELSE Append(acc, Head(s)))

\* scores.items(): <<id, score>> pairs in insertion order
RrfItems(lists, k) ==
    LET keys == FirstSeen(Flatten(lists), <<>>)
    IN  [i \in 1..Len(keys) |-> <<keys[i], RrfScore(lists, keys[i], k, 1)>>]

\* insert x into a sequence sorted by score descending, after every element
\* whose score is >= that of x (a stable sort keeps equal keys in input order)
RECURSIVE InsertByScoreDesc(_, _)
InsertByScoreDesc(sorted, x) ==
    IF sorted = <<>> THEN <<x>>
    ELSE IF Head(sorted)[2] >= x[2]
         THEN <<Head(sorted)>> \o InsertByScoreDesc(Tail(sorted), x)
         ELSE <<x>> \o sorted

\* sorted(items, key=lambda x: x[1], reverse=True)
RECURSIVE SortByScoreDesc(_, _)
SortByScoreDesc(items, acc) ==
    IF items = <<>> THEN acc
    ELSE SortByScoreDesc(Tail(items), InsertByScoreDesc(acc, Head(items)))

rank_rrf(lists, k, limit) == Take(SortByScoreDesc(RrfItems(lists, k), <<>>), limit)

(***************************************************************************)
(* Retrieval inputs.  The three lanes and the observations table are the   *)
(* database content a query sees; the lanes hold the full match rankings   *)
(* and _hybrid_retrieve cuts each to candidate_limit.                      *)
(***************************************************************************)
NoRow == 0 - 1      \* obs_table[id] when the observations table has no row id

RrfK == 60          \* args.k default; cmd_pack passes k=60

NoOverride == 0 - 1 \* candidate_limit_override=None

MaxLimit == 2       \* args.limit is at most MaxLimit
MaxVecListLen == 1  \* longest vector ranking
MaxRerankRows == 2  \* most rows in one rerank response

\* args.rerank_provider: disabled, a supported provider ("cohere" takes the
\* same branches as "jina" in _hybrid_retrieve), an unsupported one
Providers == {"none", "jina", "voyage"}

\* the observations tables of the model: every id has a row of TextLen
\* characters of packed text, except at most one id without a row
TablesOneMissing(TextLen) ==
    {[i \in Ids |-> IF i = m THEN NoRow ELSE TextLen] : m \in 0..MaxId}

ParkRrf ==
    /\ rrf_pc = "parked"
    /\ ranked_lists = <<>>
    /\ rrf_k = 0
    /\ rrf_limit = 0
    /\ rrf_out = <<>>

ParkRetr ==
    /\ fts_match = <<>>
    /\ vec_match = <<>>
    /\ vec_en_match = <<>>
    /\ obs_table = <<>>
    /\ arg_limit = 0

ParkHybrid ==
    /\ hy_pc = "parked"
    /\ rerank_provider = "none"
    /\ rerank_key = FALSE
    /\ rerank_topn = 0
    /\ rerank_outcome = [kind |-> "not_called", rows |-> <<>>]
    /\ hy_state = [kind |-> "none"]
    /\ hy_out = <<>>

ParkPack ==
    /\ pack_pc = "parked"
    /\ arg_budget_tokens = 0
    /\ pack_state = [kind |-> "none"]
    /\ selected_items = <<>>
    /\ used_tokens = 0
    /\ candidate_trace = <<>>
    /\ pack_payload = [kind |-> "none"]

\* the locals of cmd_harvest before step 1
EmptyRun ==
    [processing_files |-> <<>>, recovered |-> FALSE, rotated |-> FALSE, next |-> 1,
     inserted |-> 0, index_warning |-> FALSE, embed_error |-> "none"]

NoStart == [orphans |-> {}, live |-> FALSE]

NoReceipt == [kind |-> "none"]

ParkHarvest ==
    /\ source_name = <<>>
    /\ archive_dir = FALSE
    /\ hv_now = 0
    /\ live_log = <<>>
    /\ next_rec = 1
    /\ bad_lines = 0
    /\ log_dir = {}
    /\ archive_files = {}
    /\ store = <<>>
    /\ hv_pc = "parked"
    /\ hv_runs = 0
    /\ hv_run = EmptyRun
    /\ hv_start = NoStart
    /\ hv_exit = "none"
    /\ hv_receipt = NoReceipt

\* the state file is missing: every watermark reads as 0
NoTriageState == [observations |-> 0, tasks |-> 0, cron |-> 0]

NoTriageRun == [kind |-> "none"]

ParkTriage ==
    /\ tri_mode = "parked"
    /\ tri_limit = 0
    /\ tri_now = 0
    /\ tri_obs = <<>>
    /\ cron_jobs = <<>>
    /\ tri_state = NoTriageState
    /\ tri_dirty = FALSE
    /\ tri_last = NoTriageRun

\* no timestamp: the state file has no entry, or the string ''
NoTs == 0 - 1

NoGitState == [last_author_ts |-> NoTs, last_sha |-> 0]

NoCaptureRun == [inserted |-> 0, skipped_existing |-> 0, errors |-> 0, exit |-> "none", repeat |-> FALSE]

ParkCapture ==
    /\ cap_tool = "parked"
    /\ cap_now = 0
    /\ cap_obs = <<>>
    /\ git_commits = <<>>
    /\ git_max_commits = 0
    /\ git_state = NoGitState
    /\ git_seen = {}
    /\ git_dirty = FALSE
    /\ git_last = NoCaptureRun
    /\ md_file = [mtime |-> 0, sections |-> <<>>]
    /\ md_max_sections = 0
    /\ md_state = NoTs
    /\ md_seen = {}
    /\ md_dirty = FALSE
    /\ md_last = NoCaptureRun

NoSummary == [total_seen |-> 0, graded_filled |-> 0, skipped_existing |-> 0, skipped_disabled |-> 0, scorer_errors |-> 0]

NoInsert == [kind |-> "none"]

ParkIngest ==
    /\ ins_cmd = "parked"
    /\ ins_scorer = "off"
    /\ ins_pc = "parked"
    /\ ins_left = 0
    /\ ins_tx = <<>>
    /\ ins_db = <<>>
    /\ ins_summary = NoSummary
    /\ ins_warnings = 0
    /\ ins_errors = 0
    /\ ins_last = NoInsert

NoExit == 0 - 1

ZeroSummary == [checked |-> 0, updated |-> 0, overwritten |-> 0, overwrittenFields |-> 0, skipped |-> 0, missing |-> 0, errors |-> 0]

NoPayload == [kind |-> "none"]

ParkWriteback ==
    /\ wb_args = [kind |-> "parked"]
    /\ wb_prepared = <<>>
    /\ wb_columns = {}
    /\ wb_table = <<>>
    /\ wb_pc = "parked"
    /\ wb_force_fields = {}
    /\ wb_i = 0
    /\ wb_item = 0
    /\ wb_summary = ZeroSummary
    /\ wb_totals = ZeroSummary
    /\ wb_batches = <<>>
    /\ wb_exit = NoExit
    /\ wb_out = NoPayload

ParkGraph ==
    /\ gr_args = [kind |-> "parked"]
    /\ gr_rows = <<>>
    /\ gr_neighbors = <<>>
    /\ gr_cmd = "parked"
    /\ gr_text = <<>>

ParkState ==
    /\ st_dir = <<>>
    /\ st_pc = <<>>
    /\ st_tmp = <<>>
    /\ st_writes = 0
    /\ st_loaded = [kind |-> "parked"]

ParkHarvestPair ==
    /\ hp_now = 0
    /\ hp_live = <<>>
    /\ hp_next_rec = 0
    /\ hp_dir = {}
    /\ hp_store = <<>>
    /\ hp_proc = <<>>
    /\ hp_runs = 0
    /\ hp_ingests = {}

notRrf == <<retrVars, hyVars, packVars, harvestVars, triageVars, captureVars, ingestVars, writebackVars, graphVars, stateVars, harvestPairVars>>

notHybrid == <<rrfVars, packVars, harvestVars, triageVars, captureVars, ingestVars, writebackVars, graphVars, stateVars, harvestPairVars>>

notPack == <<rrfVars, hyVars, harvestVars, triageVars, captureVars, ingestVars, writebackVars, graphVars, stateVars, harvestPairVars>>

notHarvest == <<rrfVars, retrVars, hyVars, packVars, triageVars, captureVars, ingestVars, writebackVars, graphVars, stateVars, harvestPairVars>>

notTriage == <<rrfVars, retrVars, hyVars, packVars, harvestVars, captureVars, ingestVars, writebackVars, graphVars, stateVars, harvestPairVars>>

notCapture == <<rrfVars, retrVars, hyVars, packVars, harvestVars, triageVars, ingestVars, writebackVars, graphVars, stateVars, harvestPairVars>>

notIngest == <<rrfVars, retrVars, hyVars, packVars, harvestVars, triageVars, captureVars, writebackVars, graphVars, stateVars, harvestPairVars>>

notWriteback == <<rrfVars, retrVars, hyVars, packVars, harvestVars, triageVars, captureVars, ingestVars, graphVars, stateVars, harvestPairVars>>

notGraph == <<rrfVars, retrVars, hyVars, packVars, harvestVars, triageVars, captureVars, ingestVars, writebackVars, stateVars, harvestPairVars>>

notState == <<rrfVars, retrVars, hyVars, packVars, harvestVars, triageVars, captureVars, ingestVars, writebackVars, graphVars, harvestPairVars>>

notHarvestPair == <<rrfVars, retrVars, hyVars, packVars, harvestVars, triageVars, captureVars, ingestVars, writebackVars, graphVars, stateVars>>

(***************************************************************************)
(* cli._hybrid_retrieve                                                    *)
(***************************************************************************)
\* candidate_limit as computed before the lanes are queried
HybridCandidateLimit(limit, override, rerank_enabled, topn) ==
    LET base == Max2(1, IF override # NoOverride THEN override ELSE limit * 2)
    IN  IF rerank_enabled THEN Max2(base, topn * 3) ELSE base

\* ranked_lists = [fts_ids, vec_ids] (+ [vec_en_ids] when non-empty)
HybridRankedLists(fts_ids, vec_ids, vec_en_ids) ==
    <<fts_ids, vec_ids>> \o (IF vec_en_ids # <<>> THEN <<vec_en_ids>> ELSE <<>>)

\* [rid for rid, _ in rrf_ranking]
PairIds(pairs) == [i \in 1..Len(pairs) |-> pairs[i][1]]

\* the loop over rerank_rows: winners in provider order, out-of-range and
\* repeated indices skipped; acc is the list `reranked`
RECURSIVE RerankWinners(_, _, _)
RerankWinners(rows, ordered_ids, acc) ==
    IF rows = <<>> THEN acc
    ELSE LET idx == Head(rows)[1]
             ok  == idx >= 0 /\ idx < Len(ordered_ids)
         IN  IF ok /\ ordered_ids[idx + 1] \notin Range(acc)
             THEN RerankWinners(Tail(rows), ordered_ids, Append(acc, ordered_ids[idx + 1]))
             ELSE RerankWinners(Tail(rows), ordered_ids, acc)

\* rerank_scores[rid] = float(score), set by the first usable row of rid
RECURSIVE RerankScoreOf(_, _, _)
RerankScoreOf(rows, ordered_ids, rid) ==
    IF rows = <<>> THEN 0
    ELSE LET idx == Head(rows)[1]
         IN  IF idx >= 0 /\ idx < Len(ordered_ids) /\ ordered_ids[idx + 1] = rid
             THEN Head(rows)[2]
             ELSE RerankScoreOf(Tail(rows), ordered_ids, rid)

RerankScores(rows, ordered_ids, winners) == [rid \in Range(winners) |-> RerankScoreOf(rows, ordered_ids, rid)]

\* for rid in ordered_ids: if rid not in seen: reranked.append(rid)
RECURSIVE AppendUnseen(_, _)
AppendUnseen(ordered_ids, acc) ==
    IF ordered_ids = <<>> THEN acc
    ELSE AppendUnseen(Tail(ordered_ids),
                      IF Head(ordered_ids) \in Range(acc) THEN acc
                      ELSE Append(acc, Head(ordered_ids)))

\* TRUE iff the code reaches the call of _call_rerank_provider
RerankCalled(provider, key_ok, ordered_ids) ==
    /\ provider # "none"
    /\ ordered_ids # <<>>
    /\ provider \in {"jina", "cohere"}
    /\ key_ok

\* RerankBlock without the guard `if rerank_rows:`
RerankBlockNoRowsGuard(ordered_ids, provider, key_ok, outcome) ==
    IF /\ RerankCalled(provider, key_ok, ordered_ids)
       /\ outcome.kind = "rows"
    THEN LET winners == RerankWinners(outcome.rows, ordered_ids, <<>>)
         IN  [ordered_ids    |-> AppendUnseen(ordered_ids, winners),
              rerank_scores  |-> RerankScores(outcome.rows, ordered_ids, winners),
              rerank_applied |-> TRUE]
    ELSE [ordered_ids    |-> ordered_ids,
          rerank_scores  |-> <<>>,
          rerank_applied |-> FALSE]

\* the block `if rerank_enabled and ordered_ids:`; outcome is what the
\* provider call did.  An exception is caught and only logged.
RerankBlock(ordered_ids, provider, key_ok, outcome) ==
    IF /\ RerankCalled(provider, key_ok, ordered_ids)
       /\ outcome.kind = "rows"
       /\ outcome.rows # <<>>
    THEN LET winners == RerankWinners(outcome.rows, ordered_ids, <<>>)
         IN  [ordered_ids    |-> AppendUnseen(ordered_ids, winners),
              rerank_scores  |-> RerankScores(outcome.rows, ordered_ids, winners),
              rerank_applied |-> TRUE]
    ELSE [ordered_ids    |-> ordered_ids,
          rerank_scores  |-> <<>>,
          rerank_applied |-> FALSE]

\* the ids of rows: SELECT ... FROM observations WHERE id IN (ordered_ids)
ObsMapIds(table, ordered_ids) == {rid \in Range(ordered_ids) : table[rid] # NoRow}

\* the dict returned by _hybrid_retrieve
HybridRetrieve(table, fts_all, vec_all, vec_en_all, limit_arg, override, provider, key_ok, topn_arg, outcome) ==
    LET limit          == Max2(1, limit_arg)
        rerank_enabled == provider # "none"
        topn           == Max2(1, IF topn_arg # 0 THEN topn_arg ELSE limit)
        cand           == HybridCandidateLimit(limit, override, rerank_enabled, topn)
        fts_ids        == Take(fts_all, cand)
        vec_ids        == Take(vec_all, cand)
        vec_en_ids     == Take(vec_en_all, cand)
        rrf_ranking    == rank_rrf(HybridRankedLists(fts_ids, vec_ids, vec_en_ids), RrfK, cand)
        base_ids       == PairIds(rrf_ranking)
        rr             == RerankBlock(base_ids, provider, key_ok, outcome)
    IN  [kind            |-> "state",
         ordered_ids     |-> rr.ordered_ids,
         obs_map         |-> ObsMapIds(table, base_ids),
         rrf_ids         |-> base_ids,
         fts_ids         |-> fts_ids,
         vec_ids         |-> vec_ids,
         vec_en_ids      |-> vec_en_ids,
         rerank_scores   |-> rr.rerank_scores,
         rerank_applied  |-> rr.rerank_applied,
         rerank_provider |-> provider,
         rerank_enabled  |-> rerank_enabled,
         candidate_limit |-> cand]

(***************************************************************************)
(* cli.cmd_hybrid                                                          *)
(***************************************************************************)
\* one emitted result row
HybridRow(state, rid) ==
    [id              |-> rid,
     match_text      |-> rid \in Range(state.fts_ids),
     match_vector    |-> rid \in Range(state.vec_ids),
     match_vector_en |-> rid \in Range(state.vec_en_ids),
     rerank_provider |-> IF state.rerank_enabled THEN state.rerank_provider ELSE "unset",
     rerank_score    |-> state.rerank_enabled /\ rid \in DOMAIN state.rerank_scores,
     rank_stage      |-> IF state.rerank_enabled /\ state.rerank_applied
                         THEN (IF rid \in DOMAIN state.rerank_scores THEN "rerank" ELSE "rrf-fallback")
                         ELSE "unset"]

\* for rid in ordered_ids[:limit]: rows without an observation are skipped
RECURSIVE HybridRows(_, _)
HybridRows(state, ids) ==
    IF ids = <<>> THEN <<>>
    ELSE (IF Head(ids) \in state.obs_map THEN <<HybridRow(state, Head(ids))>> ELSE <<>>)
         \o HybridRows(state, Tail(ids))

HybridOutput(state, limit_arg) == HybridRows(state, Take(state.ordered_ids, limit_arg))

\* the possible results of one _call_rerank_provider call
\* the rows carry the scores Len..1 when the response lists its results by
\* descending relevance, and 1..Len when it lists them the other way round
ScoreRows(idxs, descending) == [i \in 1..Len(idxs) |-> <<idxs[i], IF descending THEN Len(idxs) + 1 - i ELSE i>>]

RerankRowSets == {ScoreRows(idxs, d) : idxs \in SeqsUpTo(0 - 1 .. MaxId, MaxRerankRows), d \in BOOLEAN}

RerankOutcomes ==
    {[kind |-> "exception", rows |-> <<>>]} \cup
    {[kind |-> "rows", rows |-> r] : r \in RerankRowSets}

InitHybrid ==
    /\ ParkRrf
    /\ ParkPack
    /\ ParkHarvest
    /\ ParkTriage
    /\ ParkCapture
    /\ ParkIngest
    /\ ParkWriteback
    /\ ParkGraph
    /\ ParkState
    /\ ParkHarvestPair
    /\ fts_match \in NoDupSeqsUpTo(Ids, MaxListLen)
    /\ vec_match \in NoDupSeqsUpTo(Ids, MaxVecListLen)
    /\ vec_en_match \in {<<>>, <<1>>}
    /\ obs_table \in TablesOneMissing(4)
    /\ arg_limit \in {1, MaxLimit}
    /\ hy_pc = "start"
    /\ rerank_provider \in Providers
    /\ rerank_key \in BOOLEAN
    /\ rerank_topn = 0
    /\ rerank_outcome = [kind |-> "not_called", rows |-> <<>>]
    /\ hy_state = [kind |-> "none"]
    /\ hy_out = <<>>

\* _get_api_key() finds no key, or the embedding call raises: RuntimeError,
\* reported by cmd_hybrid with exit code 1
HybridEmbedFails ==
    /\ hy_pc = "start"
    /\ hy_pc' = "exit1"
    /\ UNCHANGED <<rerank_provider, rerank_key, rerank_topn, rerank_outcome, hy_state, hy_out>>
    /\ UNCHANGED retrVars
    /\ UNCHANGED notHybrid

\* cmd_hybrid from the call of _hybrid_retrieve to _emit
HybridRun ==
    /\ hy_pc = "start"
    /\ LET base == HybridRetrieve(obs_table, fts_match, vec_match, vec_en_match, arg_limit,
                                  NoOverride, rerank_provider, rerank_key, rerank_topn,
                                  [kind |-> "not_called", rows |-> <<>>])
       IN  \E outcome \in (IF RerankCalled(rerank_provider, rerank_key, base.rrf_ids)
                           THEN RerankOutcomes
                           ELSE {[kind |-> "not_called", rows |-> <<>>]}) :
               /\ rerank_outcome' = outcome
               /\ hy_state' = HybridRetrieve(obs_table, fts_match, vec_match, vec_en_match,
                                             arg_limit, NoOverride, rerank_provider,
                                             rerank_key, rerank_topn, outcome)
               /\ hy_out' = HybridOutput(hy_state', arg_limit)
    /\ hy_pc' = "done"
    /\ UNCHANGED <<rerank_provider, rerank_key, rerank_topn>>
    /\ UNCHANGED retrVars
    /\ UNCHANGED notHybrid

NextHybrid == HybridEmbedFails \/ HybridRun

SpecHybrid == InitHybrid /\ [][NextHybrid]_vars

(***************************************************************************)
(* cli.cmd_pack                                                            *)
(*                                                                         *)
(* A row of the observations table is its packed text, and the text is     *)
(* its length: obs_table[id] is len(_pack_item_text(row)).                 *)
(***************************************************************************)
MaxBudget == 2      \* args.budget_tokens is drawn from 0..MaxBudget

\* lengths of packed text: empty, one token, two tokens
TextLens == {0, 4, 5}

\* max(1, (len(text) + 3) // 4)
estimate_tokens(text_len) == Max2(1, (text_len + 3) \div 4)

\* len(str(n)) for n >= 0
RECURSIVE Digits(_)
Digits(n) == IF n < 10 THEN 1 ELSE 1 + Digits(n \div 10)

\* len(f"- [{item['recordRef']}] {item['summary']}") with recordRef "obs:<id>"
BundleLineLen(rid, text_len) == 3 + (4 + Digits(rid)) + 2 + text_len

\* len("\n".join(bundle_lines)) for the items `items`
RECURSIVE BundleTextLen(_, _)
BundleTextLen(items, table) ==
    IF items = <<>> THEN 0
    ELSE BundleLineLen(Head(items), table[Head(items)])
         + (IF Tail(items) = <<>> THEN 0 ELSE 1 + BundleTextLen(Tail(items), table))

\* limit = max(1, int(args.limit))
PackLimit(limit_arg) == Max2(1, limit_arg)

\* budget_tokens = max(1, int(args.budget_tokens))
PackBudget(budget_arg) == Max2(1, budget_arg)

\* candidate_limit_override=max(limit * 3, limit + 8)
PackCandidateOverride(limit) == Max2(limit * 3, limit + 8)

\* PackDecision with `>` in place of `>=` in the item-cap test
PackDecisionLimitOffByOne(has_row, text_len, n_selected, used, limit, budget, in_fts, in_vec) ==
    LET token_estimate == IF text_len > 0 THEN estimate_tokens(text_len) ELSE 0
    IN  IF ~has_row THEN [include |-> FALSE, tokens |-> 0, reason |-> <<"missing_row">>]
        ELSE IF text_len = 0
             THEN [include |-> FALSE, tokens |-> 0, reason |-> <<"missing_summary">>]
        ELSE IF n_selected > limit
             THEN [include |-> FALSE, tokens |-> 0, reason |-> <<"max_items_reached">>]
        ELSE IF used + token_estimate > budget
             THEN [include |-> FALSE, tokens |-> 0, reason |-> <<"budget_tokens_exceeded">>]
        ELSE [include |-> TRUE, tokens |-> token_estimate,
              reason  |-> <<"within_item_limit", "within_budget">>
                          \o (IF in_fts THEN <<"matched_fts">> ELSE <<>>)
                          \o (IF in_vec THEN <<"matched_vector">> ELSE <<>>)]

\* PackDecision with no reason recorded when the budget is exceeded
PackDecisionSilentBudget(has_row, text_len, n_selected, used, limit, budget, in_fts, in_vec) ==
    LET token_estimate == IF text_len > 0 THEN estimate_tokens(text_len) ELSE 0
    IN  IF ~has_row THEN [include |-> FALSE, tokens |-> 0, reason |-> <<"missing_row">>]
        ELSE IF text_len = 0
             THEN [include |-> FALSE, tokens |-> 0, reason |-> <<"missing_summary">>]
        ELSE IF n_selected >= limit
             THEN [include |-> FALSE, tokens |-> 0, reason |-> <<"max_items_reached">>]
        ELSE IF used + token_estimate > budget
             THEN [include |-> FALSE, tokens |-> 0, reason |-> <<>>]
        ELSE [include |-> TRUE, tokens |-> token_estimate,
              reason  |-> <<"within_item_limit", "within_budget">>
                          \o (IF in_fts THEN <<"matched_fts">> ELSE <<>>)
                          \o (IF in_vec THEN <<"matched_vector">> ELSE <<>>)]

\* the if/elif chain of one loop iteration: the decision, the tokens added
\* to used_tokens and the reasons
PackDecision(has_row, text_len, n_selected, used, limit, budget, in_fts, in_vec) ==
    LET token_estimate == IF text_len > 0 THEN estimate_tokens(text_len) ELSE 0
    IN  IF ~has_row THEN [include |-> FALSE, tokens |-> 0, reason |-> <<"missing_row">>]
        ELSE IF text_len = 0
             THEN [include |-> FALSE, tokens |-> 0, reason |-> <<"missing_summary">>]
        ELSE IF n_selected >= limit
             THEN [include |-> FALSE, tokens |-> 0, reason |-> <<"max_items_reached">>]
        ELSE IF used + token_estimate > budget
             THEN [include |-> FALSE, tokens |-> 0, reason |-> <<"budget_tokens_exceeded">>]
        ELSE [include |-> TRUE, tokens |-> token_estimate,
              reason  |-> <<"within_item_limit", "within_budget">>
                          \o (IF in_fts THEN <<"matched_fts">> ELSE <<>>)
                          \o (IF in_vec THEN <<"matched_vector">> ELSE <<>>)]

InitPack ==
    /\ ParkRrf
    /\ ParkHybrid
    /\ ParkHarvest
    /\ ParkTriage
    /\ ParkCapture
    /\ ParkIngest
    /\ ParkWriteback
    /\ ParkGraph
    /\ ParkState
    /\ ParkHarvestPair
    /\ fts_match \in NoDupSeqsUpTo(Ids, MaxListLen)
    /\ vec_match \in NoDupSeqsUpTo(Ids, MaxVecListLen)
    /\ vec_en_match = <<>>
    /\ obs_table \in [Ids -> {NoRow} \cup TextLens]
    /\ arg_limit \in 1..MaxLimit
    /\ arg_budget_tokens \in 0..MaxBudget
    /\ pack_pc = "start"
    /\ pack_state = [kind |-> "none"]
    /\ selected_items = <<>>
    /\ used_tokens = 0
    /\ candidate_trace = <<>>
    /\ pack_payload = [kind |-> "none"]

\* args.query is blank: {"error": "empty query"}, exit code 2
PackEmptyQuery ==
    /\ pack_pc = "start"
    /\ pack_pc' = "exit2"
    /\ UNCHANGED <<arg_budget_tokens, pack_state, selected_items, used_tokens, candidate_trace, pack_payload>>
    /\ UNCHANGED retrVars
    /\ UNCHANGED notPack

\* _hybrid_retrieve raises RuntimeError: exit code 1
PackRetrieveFails ==
    /\ pack_pc = "start"
    /\ pack_pc' = "exit1"
    /\ UNCHANGED <<arg_budget_tokens, pack_state, selected_items, used_tokens, candidate_trace, pack_payload>>
    /\ UNCHANGED retrVars
    /\ UNCHANGED notPack

\* the call of _hybrid_retrieve with reranking disabled and rerank_topn=limit
PackRetrieve ==
    /\ pack_pc = "start"
    /\ LET limit == PackLimit(arg_limit)
       IN  pack_state' = HybridRetrieve(obs_table, fts_match, vec_match, vec_en_match, limit,
                                        PackCandidateOverride(limit), "none", FALSE, limit,
                                        [kind |-> "not_called", rows |-> <<>>])
    /\ pack_pc' = "loop"
    /\ UNCHANGED <<arg_budget_tokens, selected_items, used_tokens, candidate_trace, pack_payload>>
    /\ UNCHANGED retrVars
    /\ UNCHANGED notPack

\* one iteration of `for rid in ordered_ids:`
PackCandidate ==
    /\ pack_pc = "loop"
    /\ Len(candidate_trace) < Len(pack_state.ordered_ids)
    /\ LET rid      == pack_state.ordered_ids[Len(candidate_trace) + 1]
           has_row  == rid \in pack_state.obs_map
           text_len == IF has_row THEN obs_table[rid] ELSE 0
           d        == PackDecision(has_row, text_len, Len(selected_items), used_tokens,
                                    PackLimit(arg_limit), PackBudget(arg_budget_tokens),
                                    rid \in Range(pack_state.fts_ids),
                                    rid \in Range(pack_state.vec_ids)
                                        \/ rid \in Range(pack_state.vec_en_ids))
       IN  /\ used_tokens' = used_tokens + d.tokens
           /\ selected_items' = IF d.include THEN Append(selected_items, rid) ELSE selected_items
           /\ candidate_trace' = Append(candidate_trace,
                                        [id |-> rid, included |-> d.include, reason |-> d.reason])
    /\ UNCHANGED <<pack_pc, arg_budget_tokens, pack_state, pack_payload>>
    /\ UNCHANGED retrVars
    /\ UNCHANGED notPack

\* after the loop: bundle_text, items, citations and, with args.trace, the trace
PackEmit ==
    /\ pack_pc = "loop"
    /\ Len(candidate_trace) = Len(pack_state.ordered_ids)
    /\ \E trace_flag \in BOOLEAN :
           pack_payload' =
               [kind        |-> "payload",
                bundle_len  |-> BundleTextLen(selected_items, obs_table),
                items       |-> selected_items,
                citations   |-> selected_items,
                has_trace   |-> trace_flag,
                trace       |-> IF trace_flag
                                THEN [budgetTokens  |-> PackBudget(arg_budget_tokens),
                                      maxItems      |-> PackLimit(arg_limit),
                                      candidates    |-> candidate_trace,
                                      includedCount |-> Len(selected_items),
                                      excludedCount |-> Max2(0, Len(candidate_trace) - Len(selected_items))]
                                ELSE [budgetTokens  |-> 0,
                                      maxItems      |-> 0,
                                      candidates    |-> <<>>,
                                      includedCount |-> 0,
                                      excludedCount |-> 0]]
    /\ pack_pc' = "emitted"
    /\ UNCHANGED <<arg_budget_tokens, pack_state, selected_items, used_tokens, candidate_trace>>
    /\ UNCHANGED retrVars
    /\ UNCHANGED notPack

NextPack == PackEmptyQuery \/ PackRetrieveFails \/ PackRetrieve \/ PackCandidate \/ PackEmit

SpecPack == InitPack /\ [][NextPack]_vars

(***************************************************************************)
(* cli.cmd_harvest                                                         *)
(*                                                                         *)
(* A file name is kept as its dot-separated parts.  The name of a          *)
(* processing file is [base, ts] for <base>.<ts>.processing; ts is the     *)
(* clock value of its rotation (strftime("%Y%m%d_%H%M%S") is fixed-width,  *)
(* so the string order of two stamps is their time order).  A line of a    *)
(* log is the id of the record it holds, or Bad for a line json.loads      *)
(* rejects.                                                                *)
(***************************************************************************)
MaxRecords == 2     \* records the producer writes
MaxBadLines == 1    \* malformed lines the producer writes
MaxClock == 1       \* the clock runs from 0 to MaxClock
MaxRuns == 2        \* harvest runs started

Bad == 0

SourceNames == {<<"obs", "jsonl">>, <<"obs", "log">>, <<"obs">>}

\* Path.stem parts: the name without its last suffix
Stem(name) == IF Len(name) > 1 THEN SubSeq(name, 1, Len(name) - 1) ELSE name

\* source.with_suffix(f".jsonl.{ts}.processing"): the last suffix of the
\* source name is replaced
ProcessingName(source, ts) == [base |-> Stem(source) \o <<"jsonl">>, ts |-> ts]

\* fnmatch of f"{source.name}.*.processing" against <base>.<ts>.processing:
\* the name starts with "<source.name>." and `*` takes the rest up to
\* ".processing"
GlobMatches(source, fname) ==
    /\ Len(source) <= Len(fname.base)
    /\ SubSeq(fname.base, 1, Len(source)) = source

\* list.sort() step for one element: x goes after every name that does not
\* sort after it
RECURSIVE InsertName(_, _)
InsertName(sorted, x) ==
    IF sorted = <<>> THEN <<x>>
    ELSE IF Head(sorted).ts <= x.ts
         THEN <<Head(sorted)>> \o InsertName(Tail(sorted), x)
         ELSE <<x>> \o sorted

\* sorted(...) of a set of names
RECURSIVE SortedNames(_)
SortedNames(S) ==
    IF S = {} THEN <<>>
    ELSE LET x == CHOOSE y \in S : TRUE IN InsertName(SortedNames(S \ {x}), x)

\* sorted(source.parent.glob(f"{source.name}.*.processing"))
SweepFiles(source, dir) == SortedNames({f.name : f \in {g \in dir : GlobMatches(source, g.name)}})

HasFile(dir, name) == \E f \in dir : f.name = name

FileNamed(dir, name) == CHOOSE f \in dir : f.name = name

\* rename onto `file.name` in dir: an existing file of that name is replaced
RenameInto(dir, file) == {f \in dir : f.name # file.name} \cup {file}

RemoveFile(dir, name) == {f \in dir : f.name # name}

\* AppendAndSort that puts the rotated file in front of the recovered ones
PrependRotated(files, x) == <<x>> \o files

\* processing_files.append(processing); processing_files.sort()
AppendAndSort(files, x) == InsertName(files, x)

\* FinalizeFile that deletes the file although an archive directory is given
FinalizeFileAlwaysUnlink(file, use_archive, archive) == archive

\* step 6 for one file: the content of the archive directory afterwards
FinalizeFile(file, use_archive, archive) ==
    IF use_archive THEN RenameInto(archive, file) ELSE archive

\* the payload of a run that went through all steps
HarvestReceipt(run) ==
    [kind            |-> "harvest",
     ingested        |-> run.inserted,
     processed_files |-> Len(run.processing_files),
     files           |-> run.processing_files,
     recovered       |-> run.recovered,
     rotated         |-> run.rotated,
     embed_error     |-> run.embed_error]

\* the files named <log>.<ts>.processing in the directory of the log
OrphansOf(source, dir) == {f \in dir : f.name.base = source}

InitHarvest ==
    /\ ParkRrf
    /\ ParkRetr
    /\ ParkHybrid
    /\ ParkPack
    /\ ParkTriage
    /\ ParkCapture
    /\ ParkIngest
    /\ ParkWriteback
    /\ ParkGraph
    /\ ParkState
    /\ ParkHarvestPair
    /\ source_name \in SourceNames
    /\ archive_dir \in BOOLEAN
    /\ hv_now = 0
    /\ live_log = <<>>
    /\ next_rec = 1
    /\ bad_lines = 0
    /\ log_dir = {}
    /\ archive_files = {}
    /\ store = <<>>
    /\ hv_pc = "idle"
    /\ hv_runs = 0
    /\ hv_run = EmptyRun
    /\ hv_start = NoStart
    /\ hv_exit = "none"
    /\ hv_receipt = NoReceipt

\* the producer appends one record to the live log.  The producer and the
\* clock act between runs: after its first step a run reads neither the
\* live log nor the clock.
LogAppend ==
    /\ hv_pc = "idle"
    /\ next_rec <= MaxRecords
    /\ live_log' = Append(live_log, next_rec)
    /\ next_rec' = next_rec + 1
    /\ UNCHANGED <<source_name, archive_dir, hv_now, bad_lines, log_dir, archive_files, store, hv_pc, hv_runs, hv_run, hv_start, hv_exit, hv_receipt>>
    /\ UNCHANGED notHarvest

\* the producer appends a line that is not JSON
LogAppendMalformed ==
    /\ hv_pc = "idle"
    /\ bad_lines < MaxBadLines
    /\ live_log' = Append(live_log, Bad)
    /\ bad_lines' = bad_lines + 1
    /\ UNCHANGED <<source_name, archive_dir, hv_now, next_rec, log_dir, archive_files, store, hv_pc, hv_runs, hv_run, hv_start, hv_exit, hv_receipt>>
    /\ UNCHANGED notHarvest

\* one second passes
Tick ==
    /\ hv_pc = "idle"
    /\ hv_now < MaxClock
    /\ hv_now' = hv_now + 1
    /\ UNCHANGED <<source_name, archive_dir, live_log, next_rec, bad_lines, log_dir, archive_files, store, hv_pc, hv_runs, hv_run, hv_start, hv_exit, hv_receipt>>
    /\ UNCHANGED notHarvest

\* steps 1 and 2 with a rename that succeeds, and the early return when
\* nothing is queued
HarvestStart ==
    /\ hv_pc = "idle"
    /\ hv_runs < MaxRuns
    /\ hv_runs' = hv_runs + 1
    /\ hv_start' = [orphans |-> OrphansOf(source_name, log_dir), live |-> live_log # <<>>]
    /\ LET swept == SweepFiles(source_name, log_dir)
           pname == ProcessingName(source_name, hv_now)
       IN  IF live_log # <<>>
           THEN /\ log_dir' = RenameInto(log_dir, [name |-> pname, lines |-> live_log])
                /\ live_log' = <<>>
                /\ hv_run' = [EmptyRun EXCEPT !.processing_files = AppendAndSort(swept, pname),
                                              !.recovered = swept # <<>>,
                                              !.rotated = TRUE]
                /\ hv_pc' = "ingest"
                /\ UNCHANGED <<hv_exit, hv_receipt>>
           ELSE IF swept = <<>>
                THEN /\ hv_receipt' = [kind |-> "empty"]
                     /\ hv_exit' = "exit0"
                     /\ hv_run' = EmptyRun
                     /\ hv_pc' = "idle"
                     /\ UNCHANGED <<log_dir, live_log>>
                ELSE /\ hv_run' = [EmptyRun EXCEPT !.processing_files = swept,
                                                   !.recovered = TRUE]
                     /\ hv_pc' = "ingest"
                     /\ UNCHANGED <<log_dir, live_log, hv_exit, hv_receipt>>
    /\ UNCHANGED <<source_name, archive_dir, hv_now, next_rec, bad_lines, archive_files, store>>
    /\ UNCHANGED notHarvest

\* step 2 with a rename that raises OSError: error payload, exit code 1
HarvestRotateFails ==
    /\ hv_pc = "idle"
    /\ hv_runs < MaxRuns
    /\ live_log # <<>>
    /\ hv_runs' = hv_runs + 1
    /\ hv_start' = [orphans |-> OrphansOf(source_name, log_dir), live |-> TRUE]
    /\ hv_receipt' = [kind |-> "error"]
    /\ hv_exit' = "exit1"
    /\ UNCHANGED <<source_name, archive_dir, hv_now, live_log, next_rec, bad_lines, log_dir, archive_files, store, hv_pc, hv_run>>
    /\ UNCHANGED notHarvest

\* step 3 for one file: every line is inserted and the file is committed
HarvestIngestFile ==
    /\ hv_pc = "ingest"
    /\ hv_run.next <= Len(hv_run.processing_files)
    /\ LET name == hv_run.processing_files[hv_run.next]
       IN  /\ HasFile(log_dir, name)
           /\ LET lines == FileNamed(log_dir, name).lines
              IN  /\ Bad \notin Range(lines)
                  /\ store' = store \o lines
                  /\ hv_run' = [hv_run EXCEPT !.inserted = @ + Len(lines),
                                              !.next = @ + 1]
    /\ hv_pc' = IF hv_run.next = Len(hv_run.processing_files) THEN "index" ELSE "ingest"
    /\ UNCHANGED <<source_name, archive_dir, hv_now, live_log, next_rec, bad_lines, log_dir, archive_files, hv_runs, hv_start, hv_exit, hv_receipt>>
    /\ UNCHANGED notHarvest

\* step 3 raises for the current file (a line that is not JSON, a file that
\* is gone, an I/O or database error): the inserts of this file are never
\* committed; error payload, exit code 1
HarvestIngestFails ==
    /\ hv_pc = "ingest"
    /\ hv_run.next <= Len(hv_run.processing_files)
    /\ hv_receipt' = [kind |-> "error"]
    /\ hv_exit' = "exit1"
    /\ hv_run' = EmptyRun
    /\ hv_pc' = "idle"
    /\ UNCHANGED <<source_name, archive_dir, hv_now, live_log, next_rec, bad_lines, log_dir, archive_files, store, hv_runs, hv_start>>
    /\ UNCHANGED notHarvest

\* step 4: the index refresh is skipped, succeeds, or fails with a warning
HarvestIndex ==
    /\ hv_pc = "index"
    /\ \E failed \in BOOLEAN : hv_run' = [hv_run EXCEPT !.index_warning = failed]
    /\ hv_pc' = "embed"
    /\ UNCHANGED <<source_name, archive_dir, hv_now, live_log, next_rec, bad_lines, log_dir, archive_files, store, hv_runs, hv_start, hv_exit, hv_receipt>>
    /\ UNCHANGED notHarvest

\* step 5: embedding is off or succeeds ("none"), finds no API key, or raises
HarvestEmbed ==
    /\ hv_pc = "embed"
    /\ \E err \in {"none", "missing_api_key", "error"} :
           hv_run' = [hv_run EXCEPT !.embed_error = err, !.next = 1]
    /\ hv_pc' = "archive"
    /\ UNCHANGED <<source_name, archive_dir, hv_now, live_log, next_rec, bad_lines, log_dir, archive_files, store, hv_runs, hv_start, hv_exit, hv_receipt>>
    /\ UNCHANGED notHarvest

\* the shapes of the OpenClaw configuration file that _get_api_key walks
\* through: an object without the key, an object with it, or JSON in which
\* one level of agents.defaults.memorySearch.remote is not an object
ConfigShapes == {"no_key", "has_key", "not_object"}

\* _get_api_key: the environment first, then the chain of .get calls on the
\* configuration; the chain raises AttributeError on a level that is no object
get_api_key(env_key, config) ==
    IF env_key THEN "key"
    ELSE IF config = "not_object" THEN "raises"
    ELSE IF config = "has_key" THEN "key"
    ELSE "none"

\* step 5 with --embed: the key lookup stands before the try block, so its
\* exception leaves cmd_harvest and main: traceback, exit code 1, no payload,
\* step 6 never runs
HarvestKeyLookupRaises ==
    /\ hv_pc = "embed"
    /\ \E env_key \in BOOLEAN, config \in ConfigShapes : get_api_key(env_key, config) = "raises"
    /\ hv_receipt' = NoReceipt
    /\ hv_exit' = "traceback"
    /\ hv_run' = EmptyRun
    /\ hv_pc' = "idle"
    /\ UNCHANGED <<source_name, archive_dir, hv_now, live_log, next_rec, bad_lines, log_dir, archive_files, store, hv_runs, hv_start>>
    /\ UNCHANGED notHarvest

\* step 6 for one file: rename into the archive directory, or unlink
HarvestArchiveFile ==
    /\ hv_pc = "archive"
    /\ hv_run.next <= Len(hv_run.processing_files)
    /\ LET name == hv_run.processing_files[hv_run.next]
       IN  /\ HasFile(log_dir, name)
           /\ archive_files' = FinalizeFile(FileNamed(log_dir, name), archive_dir, archive_files)
           /\ log_dir' = RemoveFile(log_dir, name)
    /\ hv_run' = [hv_run EXCEPT !.next = @ + 1]
    /\ hv_pc' = IF hv_run.next = Len(hv_run.processing_files) THEN "emit" ELSE "archive"
    /\ UNCHANGED <<source_name, archive_dir, hv_now, live_log, next_rec, bad_lines, store, hv_runs, hv_start, hv_exit, hv_receipt>>
    /\ UNCHANGED notHarvest

\* step 6 raises (mkdir, rename or unlink fails, or the file is gone):
\* error payload, exit code 1
HarvestArchiveFails ==
    /\ hv_pc = "archive"
    /\ hv_receipt' = [kind |-> "error"]
    /\ hv_exit' = "exit1"
    /\ hv_run' = EmptyRun
    /\ hv_pc' = "idle"
    /\ UNCHANGED <<source_name, archive_dir, hv_now, live_log, next_rec, bad_lines, log_dir, archive_files, store, hv_runs, hv_start>>
    /\ UNCHANGED notHarvest

\* the one result payload, exit code 0
HarvestEmit ==
    /\ hv_pc = "emit"
    /\ hv_receipt' = HarvestReceipt(hv_run)
    /\ hv_exit' = "exit0"
    /\ hv_run' = EmptyRun
    /\ hv_pc' = "idle"
    /\ UNCHANGED <<source_name, archive_dir, hv_now, live_log, next_rec, bad_lines, log_dir, archive_files, store, hv_runs, hv_start>>
    /\ UNCHANGED notHarvest

\* the process is killed between two steps: nothing is emitted, what was
\* committed and renamed so far stays
HarvestInterrupt ==
    /\ hv_pc \in {"ingest", "index", "embed", "archive", "emit"}
    /\ hv_receipt' = NoReceipt
    /\ hv_exit' = "interrupted"
    /\ hv_run' = EmptyRun
    /\ hv_pc' = "idle"
    /\ UNCHANGED <<source_name, archive_dir, hv_now, live_log, next_rec, bad_lines, log_dir, archive_files, store, hv_runs, hv_start>>
    /\ UNCHANGED notHarvest

NextHarvest ==
    \/ LogAppend
    \/ LogAppendMalformed
    \/ Tick
    \/ HarvestStart
    \/ HarvestRotateFails
    \/ HarvestIngestFile
    \/ HarvestIngestFails
    \/ HarvestIndex
    \/ HarvestEmbed
    \/ HarvestKeyLookupRaises
    \/ HarvestArchiveFile
    \/ HarvestArchiveFails
    \/ HarvestEmit
    \/ HarvestInterrupt

SpecHarvest == InitHarvest /\ [][NextHarvest]_vars

(***************************************************************************)
(* cli.cmd_triage                                                          *)
(*                                                                         *)
(* Time is counted in ticks; ts of an observation and lastRunAtMs of a     *)
(* cron job are tick values.  An observation is "error" (some keyword      *)
(* matches, not written by memory_store), "task" (tool_name memory_store,  *)
(* a task whose importance reaches importance_min) or "note" (tool_name    *)
(* memory_store, neither a task nor a keyword match).                      *)
(***************************************************************************)
MaxObs == 2         \* observations inserted
MaxTick == 2        \* the clock runs from 1 to MaxTick

\* args.limit: 1, or the default 10, which no table of the model reaches
TriageLimits == {1, 10}

TriageWindow == 1   \* args.since_minutes, in ticks

TasksWindow == 2    \* args.tasks_since_minutes, in ticks

TriageModes == {"heartbeat", "observations", "cron-errors", "tasks"}

ObsKinds == {"error", "task", "note"}

\* the jobs of the cron store, in the order of their names
CronJobNames == <<"backup">>

\* limit = max(1, min(200, limit))
TriageLimit(limit_arg) == Max2(1, Min2(200, limit_arg))

\* ORDER BY ts DESC: larger ts first.  The table has no index on ts: the
\* rows are scanned in id order and rows of equal ts come out in that order.
RECURSIVE OrderByTsDesc(_, _)
OrderByTsDesc(S, table) ==
    IF S = {} THEN <<>>
    ELSE LET first == CHOOSE a \in S : \A b \in S \ {a} :
                          \/ table[a].ts > table[b].ts
                          \/ (table[a].ts = table[b].ts /\ a < b)
         IN  <<first>> \o OrderByTsDesc(S \ {first}, table)

\* ORDER BY id DESC
RECURSIVE OrderByIdDesc(_)
OrderByIdDesc(S) ==
    IF S = {} THEN <<>>
    ELSE LET first == CHOOSE a \in S : \A b \in S : a >= b
         IN  <<first>> \o OrderByIdDesc(S \ {first})

\* _triage_observations: the ids of the returned rows
triage_observations(table, since, limit) ==
    Take(OrderByTsDesc({i \in DOMAIN table : table[i].ts >= since /\ table[i].kind = "error"},
                       table),
         limit)

\* the loop of _triage_tasks over the fetched rows, stopped at `limit`
RECURSIVE TaskRows(_, _, _, _)
TaskRows(rows, table, limit, out) ==
    IF rows = <<>> \/ Len(out) >= limit THEN out
    ELSE TaskRows(Tail(rows), table, limit,
                  IF table[Head(rows)].kind = "task" THEN Append(out, Head(rows)) ELSE out)

\* _triage_tasks: the ids of the returned tasks
triage_tasks(table, since, limit) ==
    LET rows == Take(OrderByIdDesc({i \in DOMAIN table : /\ table[i].ts >= since
                                                         /\ table[i].kind \in {"task", "note"}}),
                     Max2(50, limit * 20))
    IN  TaskRows(rows, table, limit, <<>>)

\* bad.sort(key=(-lastRunAtMs, name))
RECURSIVE OrderCronBad(_, _)
OrderCronBad(S, jobs) ==
    IF S = {} THEN <<>>
    ELSE LET first == CHOOSE a \in S : \A b \in S \ {a} :
                          \/ jobs[a].run > jobs[b].run
                          \/ (jobs[a].run = jobs[b].run /\ a < b)
         IN  <<first>> \o OrderCronBad(S \ {first}, jobs)

\* _triage_cron_errors: the returned jobs
triage_cron_errors(jobs, since, limit) ==
    Take(OrderCronBad({j \in DOMAIN jobs : /\ jobs[j].status \notin {"none", "ok"}
                                           /\ ~(jobs[j].run < since)},
                      jobs),
         limit)

RECURSIVE SetMax(_)
SetMax(S) ==
    LET x == CHOOSE y \in S : TRUE
    IN  IF S = {x} THEN x ELSE Max2(x, SetMax(S \ {x}))

\* AdvanceWatermark that moves to the smallest new value
AdvanceWatermarkToOldest(last, new_vals) ==
    IF new_vals = {} THEN last ELSE Max2(last, 0 - SetMax({0 - v : v \in new_vals}))

\* AdvanceWatermark that starts from zero instead of the loaded value
AdvanceWatermarkFromZero(last, new_vals) ==
    IF new_vals = {} THEN 0 ELSE SetMax(new_vals)

\* last = max(last, max(new)) when the stream has new items
AdvanceWatermark(last, new_vals) ==
    IF new_vals = {} THEN last ELSE Max2(last, SetMax(new_vals))

InitTriage ==
    /\ ParkRrf
    /\ ParkRetr
    /\ ParkHybrid
    /\ ParkPack
    /\ ParkHarvest
    /\ ParkCapture
    /\ ParkIngest
    /\ ParkWriteback
    /\ ParkGraph
    /\ ParkState
    /\ ParkHarvestPair
    /\ tri_mode \in TriageModes \cup {"bogus"}
    /\ tri_limit \in TriageLimits
    /\ tri_now = 1
    /\ tri_obs = <<>>
    /\ cron_jobs = [j \in 1..Len(CronJobNames) |-> [status |-> "none", run |-> 0]]
    /\ tri_state = NoTriageState
    /\ tri_dirty = FALSE
    /\ tri_last = NoTriageRun

\* an observation is ingested; its ts is the record's own, the current
\* tick or the one before
ObsInsert ==
    /\ Len(tri_obs) < MaxObs
    /\ \E ts \in {t \in 1..tri_now : t >= tri_now - 1}, kind \in ObsKinds :
           tri_obs' = Append(tri_obs, [ts |-> ts, kind |-> kind])
    /\ tri_dirty' = TRUE
    /\ UNCHANGED <<tri_mode, tri_limit, tri_now, cron_jobs, tri_state, tri_last>>
    /\ UNCHANGED notTriage

\* a cron job finishes a run and the scheduler rewrites jobs.json
CronJobRuns ==
    /\ \E j \in DOMAIN cron_jobs, status \in {"ok", "error"} :
           /\ cron_jobs[j] # [status |-> status, run |-> tri_now]
           /\ cron_jobs' = [cron_jobs EXCEPT ![j] = [status |-> status, run |-> tri_now]]
    /\ tri_dirty' = TRUE
    /\ UNCHANGED <<tri_mode, tri_limit, tri_now, tri_obs, tri_state, tri_last>>
    /\ UNCHANGED notTriage

TriageTick ==
    /\ tri_now < MaxTick
    /\ tri_now' = tri_now + 1
    /\ UNCHANGED <<tri_mode, tri_limit, tri_obs, cron_jobs, tri_state, tri_dirty, tri_last>>
    /\ UNCHANGED notTriage

\* cmd_triage with an unknown mode: error payload, exit code 2
TriageInvalidMode ==
    /\ tri_mode \notin TriageModes
    /\ tri_last' = [kind |-> "run", exit |-> 2, obs_new |-> {}, tasks_new |-> {},
                    cron_new |-> {}, before |-> tri_state,
                    repeat |-> tri_last.kind = "run" /\ ~tri_dirty,
                    prev_exit |-> IF tri_last.kind = "run" THEN tri_last.exit ELSE 0 - 1]
    /\ tri_dirty' = FALSE
    /\ UNCHANGED <<tri_mode, tri_limit, tri_now, tri_obs, cron_jobs, tri_state>>
    /\ UNCHANGED notTriage

\* cmd_triage from _load_triage_state to sys.exit
TriageRun ==
    /\ tri_mode \in TriageModes
    /\ LET limit     == TriageLimit(tri_limit)
           obs_all   == IF tri_mode \in {"heartbeat", "observations"}
                        THEN triage_observations(tri_obs, tri_now - TriageWindow, limit)
                        ELSE <<>>
           cron_all  == IF tri_mode \in {"heartbeat", "cron-errors"}
                        THEN triage_cron_errors(cron_jobs, tri_now - TriageWindow, limit)
                        ELSE <<>>
           tasks_all == IF tri_mode \in {"heartbeat", "tasks"}
                        THEN triage_tasks(tri_obs, tri_now - TasksWindow, limit)
                        ELSE <<>>
           obs_new   == {i \in Range(obs_all) : i > tri_state.observations}
           tasks_new == {i \in Range(tasks_all) : i > tri_state.tasks}
           cron_new  == {j \in Range(cron_all) : cron_jobs[j].run > tri_state.cron}
           needs_attention == obs_new # {} \/ cron_new # {} \/ tasks_new # {}
       IN  /\ tri_state' =
                  IF needs_attention
                  THEN [observations |-> AdvanceWatermark(tri_state.observations, obs_new),
                        tasks        |-> AdvanceWatermark(tri_state.tasks, tasks_new),
                        cron         |-> AdvanceWatermark(tri_state.cron,
                                                          {cron_jobs[j].run : j \in cron_new})]
                  ELSE tri_state
           /\ tri_last' = [kind |-> "run", exit |-> IF needs_attention THEN 10 ELSE 0,
                           obs_new |-> obs_new, tasks_new |-> tasks_new,
                           cron_new |-> {cron_jobs[j].run : j \in cron_new},
                           before |-> tri_state,
                           repeat |-> tri_last.kind = "run" /\ ~tri_dirty,
                           prev_exit |-> IF tri_last.kind = "run" THEN tri_last.exit ELSE 0 - 1]
    /\ tri_dirty' = FALSE
    /\ UNCHANGED <<tri_mode, tri_limit, tri_now, tri_obs, cron_jobs>>
    /\ UNCHANGED notTriage

NextTriage == ObsInsert \/ CronJobRuns \/ TriageTick \/ TriageInvalidMode \/ TriageRun

SpecTriage == InitTriage /\ [][NextTriage]_vars

\* args.mode is given anew with every invocation: the next run uses another mode
TriageSetMode ==
    /\ \E mode \in TriageModes : mode # tri_mode /\ tri_mode' = mode
    /\ tri_dirty' = TRUE
    /\ UNCHANGED <<tri_limit, tri_now, tri_obs, cron_jobs, tri_state, tri_last>>
    /\ UNCHANGED notTriage

\* runs of cmd_triage on one state file, within one tick of the clock, with a
\* mode that changes from run to run
InitTriageSwitch == InitTriage /\ tri_mode = "heartbeat"

NextTriageSwitch == ObsInsert \/ CronJobRuns \/ TriageSetMode \/ TriageRun

SpecTriageSwitch == InitTriageSwitch /\ [][NextTriageSwitch]_vars



(***************************************************************************)
(* SpecCapture: cmd_graph_capture_git and cmd_graph_capture_md             *)
(*                                                                         *)
(* One repository with a linear history and one Markdown file, captured    *)
(* run after run into one database.  Time is counted in ticks; a commit's  *)
(* sha is its position in the history.  Commit dates grow along the        *)
(* history, author dates are free (a rebased or cherry-picked commit keeps *)
(* its old author date), and a commit made with an empty tree change       *)
(* lists no files.  The two commands keep separate seen tables and state   *)
(* files and only append to the observations table, so a behaviour follows *)
(* one of them, chosen at the start.                                       *)
(***************************************************************************)
\* commits the repository may hold
MaxCommits == 2

\* last tick of the clock
MaxCapTick == 3

\* sections a Markdown file may hold
MaxSections == 2

\* distinct section fingerprints
MaxFp == 2

\* args.since / args.since_hours: the lookback window, in ticks
CaptureWindow == 1

\* args.max_commits: 1, or the default 50
GitMaxCommitsArgs == {1, 50}

\* args.max_sections_per_file: 1, or the default 50
MdMaxSectionsArgs == {1, 50}

Fingerprints == 1..MaxFp

\* now minus the lookback window
graph_capture_git_default_since_iso(now) == now - CaptureWindow

\* git log --since=<since>: newest first, the commits whose commit date is not before since
RECURSIVE GitLogSince(_, _, _)
GitLogSince(commits, since, i) == IF i = 0 THEN <<>> ELSE (IF commits[i].cdate >= since THEN <<i>> ELSE <<>>) \o GitLogSince(commits, since, i - 1)

\* splitting the output on the record separator: with --name-only the file
\* names of a commit follow its separator, so the chunk of the next commit
\* begins with them and its first line is no header
RECURSIVE ParseChunks(_, _, _)
ParseChunks(commits, listing, p) == IF p > Len(listing) THEN <<>> ELSE (IF p = 1 \/ ~commits[listing[p - 1]].files THEN <<listing[p]>> ELSE <<>>) \o ParseChunks(commits, listing, p + 1)

\* graph_capture_git_run_log without --max-count
graph_capture_git_run_log_uncapped(commits, since, max_commits) == ParseChunks(commits, GitLogSince(commits, since, Len(commits)), 1)

\* git log --since=<since_iso> --max-count=<max(1, max_commits)> --name-only,
\* then the split of its output
graph_capture_git_run_log(commits, since, max_commits) == ParseChunks(commits, Take(GitLogSince(commits, since, Len(commits)), Max2(1, max_commits)), 1)

Reverse(s) == [i \in 1..Len(s) |-> s[Len(s) + 1 - i]]

\* graph_capture_git_seen that finds no commit
graph_capture_git_seen_nothing(seen, obs, sha) == FALSE

\* _graph_capture_git_seen, and _graph_capture_git_observation_exists as its fallback
graph_capture_git_seen(seen, obs, sha) == sha \in seen \/ (\E i \in 1..Len(obs) : obs[i] = [tool |-> "git", key |-> sha])

\* the loop over reversed(commits): the shas inserted, oldest first
RECURSIVE GitInsertions(_, _, _)
GitInsertions(todo, seen, obs) == IF todo = <<>> THEN <<>> ELSE IF graph_capture_git_seen(seen, obs, Head(todo)) THEN GitInsertions(Tail(todo), seen, obs) ELSE <<Head(todo)>> \o GitInsertions(Tail(todo), seen \cup {Head(todo)}, obs)

\* the loop over reversed(commits): newest_author_ts and newest_sha
RECURSIVE GitNewest(_, _, _)
GitNewest(commits, todo, acc) == IF todo = <<>> THEN acc ELSE GitNewest(commits, Tail(todo), IF commits[Head(todo)].adate > acc.last_author_ts THEN [last_author_ts |-> commits[Head(todo)].adate, last_sha |-> Head(todo)] ELSE acc)

GitObs(shas) == [i \in 1..Len(shas) |-> [tool |-> "git", key |-> shas[i]]]

MdObs(fps) == [i \in 1..Len(fps) |-> [tool |-> "md", key |-> fps[i]]]

graph_capture_md_parse_sections(sections, max_sections) == Take(sections, max_sections)

\* the loop over the sections: the fingerprints inserted, in file order
RECURSIVE MdInsertions(_, _)
MdInsertions(secs, seen) == IF secs = <<>> THEN <<>> ELSE IF Head(secs) \in seen THEN MdInsertions(Tail(secs), seen) ELSE <<Head(secs)>> \o MdInsertions(Tail(secs), seen \cup {Head(secs)})

MdShouldScan(mtime, prev_mtime, now) == IF prev_mtime = NoTs THEN mtime >= now - CaptureWindow ELSE mtime > prev_mtime

SectionLists == UNION {[1..n -> Fingerprints] : n \in 0..MaxSections}

InitCapture ==
    /\ ParkRrf
    /\ ParkRetr
    /\ ParkHybrid
    /\ ParkPack
    /\ ParkHarvest
    /\ ParkTriage
    /\ ParkIngest
    /\ ParkWriteback
    /\ ParkGraph
    /\ ParkState
    /\ ParkHarvestPair
    /\ cap_tool \in {"git", "md"}
    /\ cap_now = 1
    /\ cap_obs = <<>>
    /\ git_commits = <<>>
    /\ git_max_commits \in (IF cap_tool = "git" THEN GitMaxCommitsArgs ELSE {0})
    /\ git_state = NoGitState
    /\ git_seen = {}
    /\ git_dirty = TRUE
    /\ git_last = NoCaptureRun
    /\ md_file \in [mtime : {1}, sections : IF cap_tool = "md" THEN SectionLists ELSE {<<>>}]
    /\ md_max_sections \in (IF cap_tool = "md" THEN MdMaxSectionsArgs ELSE {0})
    /\ md_state = NoTs
    /\ md_seen = {}
    /\ md_dirty = TRUE
    /\ md_last = NoCaptureRun

captureGitVars == <<git_commits, git_max_commits, git_state, git_seen, git_dirty, git_last>>

captureMdVars == <<md_file, md_max_sections, md_state, md_seen, md_dirty, md_last>>

\* the clock advances
CaptureTick ==
    /\ cap_now < MaxCapTick
    /\ cap_now' = cap_now + 1
    /\ UNCHANGED <<cap_tool, cap_obs, captureGitVars, captureMdVars>>
    /\ UNCHANGED notCapture

\* somebody commits to the repository: the commit date is the clock, the
\* author date is the clock, or tick 0 for a rebased or cherry-picked commit
GitCommit ==
    /\ cap_tool = "git"
    /\ Len(git_commits) < MaxCommits
    /\ \E adate \in {0, cap_now}, files \in BOOLEAN :
          git_commits' = Append(git_commits, [adate |-> adate, cdate |-> cap_now, files |-> files])
    /\ git_dirty' = TRUE
    /\ UNCHANGED <<cap_tool, cap_now, cap_obs, git_max_commits, git_state, git_seen, git_last, captureMdVars>>
    /\ UNCHANGED notCapture

\* somebody writes the Markdown file
MdEdit ==
    /\ cap_tool = "md"
    /\ \E secs \in SectionLists : md_file' = [mtime |-> cap_now, sections |-> secs]
    /\ md_dirty' = TRUE
    /\ UNCHANGED <<cap_tool, cap_now, cap_obs, md_max_sections, md_state, md_seen, md_last, captureGitVars>>
    /\ UNCHANGED notCapture

\* cmd_graph_capture_git on the repository, git log succeeding
GraphCaptureGit ==
    LET since_iso == IF git_state.last_author_ts # NoTs THEN git_state.last_author_ts ELSE graph_capture_git_default_since_iso(cap_now)
        commits == graph_capture_git_run_log(git_commits, since_iso, git_max_commits)
        inserted == GitInsertions(Reverse(commits), git_seen, cap_obs)
        newest == GitNewest(git_commits, Reverse(commits), git_state)
    IN  /\ cap_tool = "git"
        /\ cap_obs' = cap_obs \o GitObs(inserted)
        /\ git_seen' = git_seen \cup Range(commits)
        /\ git_state' = [last_author_ts |-> IF newest.last_author_ts # NoTs THEN newest.last_author_ts ELSE since_iso, last_sha |-> newest.last_sha]
        /\ git_last' = [inserted |-> Len(inserted), skipped_existing |-> Len(commits) - Len(inserted), errors |-> 0, exit |-> "exit0", repeat |-> ~git_dirty]
        /\ git_dirty' = FALSE
        /\ UNCHANGED <<cap_tool, cap_now, git_commits, git_max_commits, captureMdVars>>
        /\ UNCHANGED notCapture

\* cmd_graph_capture_git when the path is no repository or git log fails:
\* the repository's summary counts one error and its state entry stays
GraphCaptureGitFails ==
    /\ cap_tool = "git"
    /\ git_last' = [inserted |-> 0, skipped_existing |-> 0, errors |-> 1, exit |-> "exit1", repeat |-> ~git_dirty]
    /\ UNCHANGED <<cap_tool, cap_now, cap_obs, git_commits, git_max_commits, git_state, git_seen, git_dirty, captureMdVars>>
    /\ UNCHANGED notCapture

\* cmd_graph_capture_md on the file, the file being readable
GraphCaptureMd ==
    LET should_scan == MdShouldScan(md_file.mtime, md_state, cap_now)
        sections == graph_capture_md_parse_sections(md_file.sections, md_max_sections)
        inserted == IF should_scan THEN MdInsertions(sections, md_seen) ELSE <<>>
    IN  /\ cap_tool = "md"
        /\ cap_obs' = cap_obs \o MdObs(inserted)
        /\ md_seen' = md_seen \cup Range(inserted)
        /\ md_state' = IF should_scan THEN md_file.mtime ELSE md_state
        /\ md_last' = [inserted |-> Len(inserted), skipped_existing |-> IF should_scan THEN Len(sections) - Len(inserted) ELSE 0, errors |-> 0, exit |-> "exit0", repeat |-> ~md_dirty]
        /\ md_dirty' = FALSE
        /\ UNCHANGED <<cap_tool, cap_now, md_file, md_max_sections, captureGitVars>>
        /\ UNCHANGED notCapture

\* cmd_graph_capture_md when stat or read_text raises: one error, no state
\* entry for the file, exit 1
GraphCaptureMdFails ==
    /\ cap_tool = "md"
    /\ md_last' = [inserted |-> 0, skipped_existing |-> 0, errors |-> 1, exit |-> "exit1", repeat |-> ~md_dirty]
    /\ UNCHANGED <<cap_tool, cap_now, cap_obs, md_file, md_max_sections, md_state, md_seen, md_dirty, captureGitVars>>
    /\ UNCHANGED notCapture

NextCapture == CaptureTick \/ GitCommit \/ MdEdit \/ GraphCaptureGit \/ GraphCaptureGitFails \/ GraphCaptureMd \/ GraphCaptureMdFails

SpecCapture == InitCapture /\ [][NextCapture]_vars

\* cmd_graph_capture_git interrupted between conn.commit() and
\* _atomic_write_json: the observations and the seen table are committed,
\* the state file is as it was, nothing is printed
GraphCaptureGitInterrupted ==
    LET since_iso == IF git_state.last_author_ts # NoTs THEN git_state.last_author_ts ELSE graph_capture_git_default_since_iso(cap_now)
        commits == graph_capture_git_run_log(git_commits, since_iso, git_max_commits)
        inserted == GitInsertions(Reverse(commits), git_seen, cap_obs)
    IN  /\ cap_tool = "git"
        /\ cap_obs' = cap_obs \o GitObs(inserted)
        /\ git_seen' = git_seen \cup Range(commits)
        /\ git_last' = [inserted |-> Len(inserted), skipped_existing |-> Len(commits) - Len(inserted), errors |-> 0, exit |-> "interrupted", repeat |-> ~git_dirty]
        /\ git_dirty' = FALSE
        /\ UNCHANGED <<cap_tool, cap_now, git_commits, git_max_commits, git_state, captureMdVars>>
        /\ UNCHANGED notCapture

\* cmd_graph_capture_md interrupted between conn.commit() and
\* _atomic_write_json
GraphCaptureMdInterrupted ==
    LET should_scan == MdShouldScan(md_file.mtime, md_state, cap_now)
        sections == graph_capture_md_parse_sections(md_file.sections, md_max_sections)
        inserted == IF should_scan THEN MdInsertions(sections, md_seen) ELSE <<>>
    IN  /\ cap_tool = "md"
        /\ cap_obs' = cap_obs \o MdObs(inserted)
        /\ md_seen' = md_seen \cup Range(inserted)
        /\ md_last' = [inserted |-> Len(inserted), skipped_existing |-> IF should_scan THEN Len(sections) - Len(inserted) ELSE 0, errors |-> 0, exit |-> "interrupted", repeat |-> ~md_dirty]
        /\ md_dirty' = FALSE
        /\ UNCHANGED <<cap_tool, cap_now, md_file, md_max_sections, md_state, captureGitVars>>
        /\ UNCHANGED notCapture

\* capture runs that may be interrupted before the state file is written,
\* within one tick of the clock, with the default --max-commits and
\* --max-sections-per-file
InitCaptureCrash == InitCapture /\ git_max_commits \in {0, 50} /\ md_max_sections \in {0, 50}

NextCaptureCrash ==
    \/ GitCommit
    \/ MdEdit
    \/ GraphCaptureGit
    \/ GraphCaptureGitInterrupted
    \/ GraphCaptureMd
    \/ GraphCaptureMdInterrupted

SpecCaptureCrash == InitCaptureCrash /\ [][NextCaptureCrash]_vars


(***************************************************************************)
(* SpecIngest: _insert_observation and its callers                         *)
(*                                                                         *)
(* One run of a command that inserts observations.  A record is what the   *)
(* importance handling looks at: detail.importance and a top-level         *)
(* importance key, each absent or present.  A row of the database is the   *)
(* importance stored in its detail_json and whether its full-text row      *)
(* exists.  The connection is opened without autocommit: the rows of the   *)
(* open transaction reach the database at conn.commit() and are dropped    *)
(* when the process ends first.                                            *)
(***************************************************************************)
\* records one run inserts
MaxInserts == 2

InsertCommands == {"ingest", "harvest", "store", "capture_git", "capture_md"}

\* the values of OPENCLAW_MEM_IMPORTANCE_SCORER that matter
ScorerSettings == {"heuristic-v1", "off"}

\* detail.importance of a record, and its top-level key `importance`
DetailImportance == {"absent", "detail"}

ExtraImportance == {"absent", "extra"}

\* ingest and harvest pass their IngestRunSummary, the others pass none
HasRunSummary(cmd) == cmd \in {"ingest", "harvest"}

\* detail_obj.update(extras): a top-level key replaces the key of detail
NormalizedImportance(rec) == IF rec.extra # "absent" THEN rec.extra ELSE rec.detail

\* ImportanceWritten that attaches an importance although the grader raised
ImportanceWrittenOnError(incoming, graded, grader) ==
    IF graded THEN "graded" ELSE incoming

\* the importance that detail_obj holds after the autograde block: the
\* grader's only when it was called and returned; an exception of the
\* grader leaves detail_obj as it was
ImportanceWritten(incoming, graded, grader) ==
    IF graded /\ grader = "ok" THEN "graded" ELSE incoming

\* _insert_observation up to json.dumps: the importance written to
\* detail_json, the run summary and the warnings.  grader is what
\* grade_observation does when it is called: "ok" | "raises"
insert_observation(rec, scorer, grader, has_summary, summary, warnings) ==
    LET incoming       == NormalizedImportance(rec)
        had_importance == incoming # "absent"
        graded         == scorer = "heuristic-v1" /\ ~had_importance
        s1 == IF has_summary THEN [summary EXCEPT !.total_seen = @ + 1] ELSE summary
        s2 == IF has_summary /\ had_importance THEN [s1 EXCEPT !.skipped_existing = @ + 1] ELSE s1
        s3 == IF ~has_summary THEN s2
              ELSE IF graded /\ grader = "ok" THEN [s2 EXCEPT !.graded_filled = @ + 1]
              ELSE IF graded THEN [s2 EXCEPT !.scorer_errors = @ + 1]
              ELSE IF scorer # "heuristic-v1" /\ ~had_importance THEN [s2 EXCEPT !.skipped_disabled = @ + 1]
              ELSE s2
    IN  [importance |-> ImportanceWritten(incoming, graded, grader),
         grader     |-> IF graded THEN grader ELSE "not_called",
         summary    |-> s3,
         warnings   |-> IF graded /\ grader = "raises" THEN warnings + 1 ELSE warnings]

\* the two INSERT statements: "ok", or which one raises.  "fts_fails" is an
\* error of the second statement that undoes that statement only,
\* "fts_fails_rollback" one after which SQLite rolls the transaction back
\* (disk full, I/O error)
SqlOutcomes == {"ok", "obs_fails", "fts_fails", "fts_fails_rollback"}

SqlInsert(tx, importance, sql) ==
    CASE sql = "ok" -> Append(tx, [importance |-> importance, fts |-> TRUE])
      [] sql = "obs_fails" -> tx
      [] sql = "fts_fails" -> Append(tx, [importance |-> importance, fts |-> FALSE])
      [] sql = "fts_fails_rollback" -> <<>>

InsertRecords == [detail : DetailImportance, extra : ExtraImportance]

LastInsert(rec, r, sql) == [kind |-> "insert", rec |-> rec, grader |-> r.grader, importance |-> r.importance, sql |-> sql, summary_before |-> ins_summary, warnings_before |-> ins_warnings]

InitIngest ==
    /\ ParkRrf
    /\ ParkRetr
    /\ ParkHybrid
    /\ ParkPack
    /\ ParkHarvest
    /\ ParkTriage
    /\ ParkCapture
    /\ ParkWriteback
    /\ ParkGraph
    /\ ParkState
    /\ ParkHarvestPair
    /\ ins_cmd \in InsertCommands
    /\ ins_scorer \in ScorerSettings
    /\ ins_pc = "run"
    /\ ins_left \in (IF ins_cmd = "store" THEN {1} ELSE 1..MaxInserts)
    /\ ins_tx = <<>>
    /\ ins_db = <<>>
    /\ ins_summary = NoSummary
    /\ ins_warnings = 0
    /\ ins_errors = 0
    /\ ins_last = NoInsert

\* the grader is only called for a record without importance under heuristic-v1
GraderOutcomes(rec) == IF ins_scorer = "heuristic-v1" /\ NormalizedImportance(rec) = "absent" THEN {"ok", "raises"} ELSE {"not_called"}

\* store builds its record itself: detail = {"importance": ...}, no extra key
RecordsOf(cmd) == IF cmd = "store" THEN {[detail |-> "detail", extra |-> "absent"]} ELSE IF cmd \in {"capture_git", "capture_md"} THEN {[detail |-> "absent", extra |-> "absent"]} ELSE InsertRecords

\* _insert_observation returns
InsertObservation ==
    /\ ins_pc = "run"
    /\ ins_left > 0
    /\ \E rec \in RecordsOf(ins_cmd) : \E grader \in GraderOutcomes(rec) :
          LET r == insert_observation(rec, ins_scorer, grader, HasRunSummary(ins_cmd), ins_summary, ins_warnings)
          IN  /\ ins_tx' = SqlInsert(ins_tx, r.importance, "ok")
              /\ ins_summary' = r.summary
              /\ ins_warnings' = r.warnings
              /\ ins_last' = LastInsert(rec, r, "ok")
    /\ ins_left' = ins_left - 1
    /\ UNCHANGED <<ins_cmd, ins_scorer, ins_pc, ins_db, ins_errors>>
    /\ UNCHANGED notIngest

\* one of the INSERT statements of _insert_observation raises.  capture-md
\* catches the exception, counts an error and goes on with the next file;
\* harvest reports it and exits 1; the other commands do not catch it.
\* When the process ends, the open transaction is dropped
InsertObservationRaises ==
    /\ ins_pc = "run"
    /\ ins_left > 0
    /\ \E rec \in RecordsOf(ins_cmd) : \E grader \in GraderOutcomes(rec) : \E sql \in SqlOutcomes \ {"ok"} :
          LET r == insert_observation(rec, ins_scorer, grader, HasRunSummary(ins_cmd), ins_summary, ins_warnings)
          IN  /\ ins_tx' = IF ins_cmd = "capture_md" THEN SqlInsert(ins_tx, r.importance, sql) ELSE <<>>
              /\ ins_summary' = r.summary
              /\ ins_warnings' = r.warnings
              /\ ins_last' = LastInsert(rec, r, sql)
    /\ IF ins_cmd = "capture_md"
       THEN /\ ins_errors' = ins_errors + 1
            /\ ins_left' \in 0..(ins_left - 1)
            /\ ins_pc' = "run"
       ELSE /\ ins_errors' = ins_errors
            /\ ins_left' = ins_left
            /\ ins_pc' = "exit1"
    /\ UNCHANGED <<ins_cmd, ins_scorer, ins_db>>
    /\ UNCHANGED notIngest

\* conn.commit() between two files of harvest or two repositories of capture-git
CommitBetween ==
    /\ ins_pc = "run"
    /\ ins_cmd \in {"harvest", "capture_git"}
    /\ ins_left > 0
    /\ ins_tx # <<>>
    /\ ins_db' = ins_db \o ins_tx
    /\ ins_tx' = <<>>
    /\ UNCHANGED <<ins_cmd, ins_scorer, ins_pc, ins_left, ins_summary, ins_warnings, ins_errors, ins_last>>
    /\ UNCHANGED notIngest

\* the conn.commit() after the last record; capture-md exits 1 when it counted errors
CommitAtEnd ==
    /\ ins_pc = "run"
    /\ ins_left = 0
    /\ ins_db' = ins_db \o ins_tx
    /\ ins_tx' = <<>>
    /\ ins_pc' = IF ins_errors > 0 THEN "exit1" ELSE "done"
    /\ UNCHANGED <<ins_cmd, ins_scorer, ins_left, ins_summary, ins_warnings, ins_errors, ins_last>>
    /\ UNCHANGED notIngest

\* store with an API key whose embedding call raises: the exception is
\* caught and only logged, and the branch with conn.commit() is left
StoreEmbedFails ==
    /\ ins_pc = "run"
    /\ ins_cmd = "store"
    /\ ins_left = 0
    /\ ins_tx' = <<>>
    /\ ins_warnings' = ins_warnings + 1
    /\ ins_pc' = "done"
    /\ UNCHANGED <<ins_cmd, ins_scorer, ins_left, ins_db, ins_summary, ins_errors, ins_last>>
    /\ UNCHANGED notIngest

\* the process is killed before a commit
InsertKilled ==
    /\ ins_pc = "run"
    /\ ins_tx' = <<>>
    /\ ins_pc' = "killed"
    /\ UNCHANGED <<ins_cmd, ins_scorer, ins_left, ins_db, ins_summary, ins_warnings, ins_errors, ins_last>>
    /\ UNCHANGED notIngest

NextIngest == InsertObservation \/ InsertObservationRaises \/ CommitBetween \/ CommitAtEnd \/ StoreEmbedFails \/ InsertKilled

SpecIngest == InitIngest /\ [][NextIngest]_vars

(***************************************************************************)
(* SpecWriteback: cmd_writeback_lancedb and its bridge child               *)
(*                                                                         *)
(* One run of writeback-lancedb.  The command validates --force-fields,    *)
(* cuts the prepared updates into batches and spawns one bridge child per  *)
(* batch; the child handles the updates of its batch one by one against    *)
(* the external table and prints a summary.  A value of the external table *)
(* or of an update is null, undefined (the key is absent), a number in     *)
(* tenths, or a string given by its trimmed text and whether the raw       *)
(* string carries surrounding blanks.                                      *)
(***************************************************************************)
MaxPrepared == 2
MaxBatch == 2

Null == [kind |-> "null"]
Undefined == [kind |-> "undefined"]
Num(n) == [kind |-> "num", n |-> n]
Str(text, padded) == [kind |-> "str", text |-> text, padded |-> padded]

LANCEDB_FORCE_FIELDS_SET == {"importance", "importance_label", "scope", "trust_tier", "category"}
LANCEDB_FORCE_FIELDS_DEFAULT == {"importance", "importance_label", "scope", "category"}
ALLOWED_FORCE_FIELDS == {"importance", "importance_label", "scope", "category", "trust_tier"}
ALLOWED_IMPORTANCE_LABELS == {"must_remember", "nice_to_have", "ignore", "unknown"}
ALLOWED_TRUST_TIERS == {"trusted", "untrusted", "quarantined"}

\* hasMeaningfulValue of the bridge script
hasMeaningfulValue(value) ==
    CASE value.kind \in {"null", "undefined"} -> FALSE
      [] value.kind = "num" -> TRUE
      [] value.kind = "str" -> value.text # ""

\* clamp01 of the bridge script: Number(undefined) is NaN, Number(null) is 0
clamp01(value) ==
    CASE value.kind = "undefined" -> Undefined
      [] value.kind = "null" -> Num(0)
      [] value.kind = "num" -> Num(IF value.n < 0 THEN 0 ELSE IF value.n > 10 THEN 10 ELSE value.n)
      [] value.kind = "str" -> Undefined

\* String(value || '').trim()
TrimmedString(value) == IF value.kind = "str" THEN value.text ELSE ""

\* allowedLabel and allowedTrust: the trimmed string, or null (here "")
allowedLabel(value) == IF TrimmedString(value) \in ALLOWED_IMPORTANCE_LABELS THEN TrimmedString(value) ELSE ""

allowedTrust(value) == IF TrimmedString(value) \in ALLOWED_TRUST_TIERS THEN TrimmedString(value) ELSE ""

\* canOverwriteField that ignores the list of force fields
canOverwriteAnyField(forceOverwrite, forceFields, name) == forceOverwrite

\* overwriteFields and canOverwriteField of the bridge script
canOverwriteField(forceOverwrite, forceFields, name) ==
    forceOverwrite /\ name \in (forceFields \cap ALLOWED_FORCE_FIELDS)

\* the block of the bridge script for importance: whether the field goes into
\* the patch, with which value, and whether it counts as overwritten
PatchImportance(current, incoming, columns, can) ==
    LET incomingImportance   == clamp01(incoming)
        hasCurrentImportance == hasMeaningfulValue(current)
        entered == incomingImportance # Undefined /\ "importance" \in columns /\ (~hasCurrentImportance \/ can)
        differs == clamp01(current) # incomingImportance
    IN  [write       |-> entered /\ (differs \/ ~hasCurrentImportance),
         value       |-> incomingImportance,
         overwritten |-> entered /\ differs /\ can /\ hasCurrentImportance]

\* the blocks for importance_label, scope, trust_tier and category.  The
\* label and trust blocks test the trimmed current string for emptiness, the
\* scope and category blocks the raw current value
PatchString(name, current, incoming, columns, can) ==
    LET incomingText == CASE name = "importance_label" -> allowedLabel(incoming)
                          [] name = "trust_tier" -> allowedTrust(incoming)
                          [] OTHER -> TrimmedString(incoming)
        currentText  == TrimmedString(current)
        hasCurrent   == IF name \in {"importance_label", "trust_tier"}
                        THEN hasMeaningfulValue(Str(currentText, FALSE))
                        ELSE hasMeaningfulValue(current)
        entered == incomingText # "" /\ name \in columns /\ (~hasCurrent \/ can)
        differs == currentText # incomingText
    IN  [write       |-> entered /\ (differs \/ currentText = ""),
         value       |-> Str(incomingText, FALSE),
         overwritten |-> entered /\ differs /\ can /\ currentText # ""]

\* the patch of one update against the row it names
RowPatch(row, incoming, columns, forceOverwrite, forceFields) ==
    [name \in LANCEDB_FORCE_FIELDS_SET |->
        IF name = "importance"
        THEN PatchImportance(row[name], incoming[name], columns, canOverwriteField(forceOverwrite, forceFields, name))
        ELSE PatchString(name, row[name], incoming[name], columns, canOverwriteField(forceOverwrite, forceFields, name))]

\* table.update({where, values: patch})
ApplyPatch(row, patch) == [name \in LANCEDB_FORCE_FIELDS_SET |-> IF patch[name].write THEN patch[name].value ELSE row[name]]

\* force_fields as cmd_writeback_lancedb computes it; ok is FALSE when a
\* requested field is outside _LANCEDB_FORCE_FIELDS_SET
ForceFields(force, arg) ==
    IF ~force THEN [ok |-> TRUE, fields |-> {}]
    ELSE IF arg.raw_empty THEN [ok |-> TRUE, fields |-> LANCEDB_FORCE_FIELDS_DEFAULT]
    ELSE IF arg.requested \ LANCEDB_FORCE_FIELDS_SET # {} THEN [ok |-> FALSE, fields |-> {}]
    ELSE [ok |-> TRUE, fields |-> arg.requested]

\* --force-fields: absent, one field, a list with a field outside the allowed
\* set, and a list with separators only
ForceFieldArgs ==
    {[raw_empty |-> TRUE, requested |-> {}],
     [raw_empty |-> FALSE, requested |-> {"importance"}],
     [raw_empty |-> FALSE, requested |-> {"scope", "bogus"}],
     [raw_empty |-> FALSE, requested |-> {}]}

\* rows of the external table: nothing set, everything set, and a row with an
\* importance above 1, a scope that differs from it only by blanks and an
\* empty category
ExternalRows ==
    {[importance |-> Null, importance_label |-> Null, scope |-> Str("", TRUE), trust_tier |-> Null, category |-> Null],
     [importance |-> Num(5), importance_label |-> Str("ignore", FALSE), scope |-> Str("global", FALSE), trust_tier |-> Str("trusted", FALSE), category |-> Str("fact", FALSE)],
     [importance |-> Num(15), importance_label |-> Null, scope |-> Str("global", TRUE), trust_tier |-> Null, category |-> Str("", FALSE)]}

\* what _extract_writeback_updates sends: importance clamped to 0..1, a legal
\* label, a non-empty scope, a known trust tier, a category that may be empty;
\* a key that is not sent is undefined.  Row 2 is not in the external table
PreparedUpdates ==
    {[id |-> 1, updates |-> [importance |-> Num(5), importance_label |-> Str("ignore", FALSE), scope |-> Str("global", FALSE), trust_tier |-> Undefined, category |-> Str("fact", FALSE)]],
     [id |-> 1, updates |-> [importance |-> Num(10), importance_label |-> Str("must_remember", FALSE), scope |-> Str("project", FALSE), trust_tier |-> Str("untrusted", FALSE), category |-> Str("preference", FALSE)]],
     [id |-> 1, updates |-> [importance |-> Undefined, importance_label |-> Undefined, scope |-> Str("global", FALSE), trust_tier |-> Undefined, category |-> Str("", FALSE)]],
     [id |-> 2, updates |-> [importance |-> Num(5), importance_label |-> Str("ignore", FALSE), scope |-> Str("global", FALSE), trust_tier |-> Undefined, category |-> Str("fact", FALSE)]]}

TableIds == {1}

InitWriteback ==
    /\ ParkRrf
    /\ ParkRetr
    /\ ParkHybrid
    /\ ParkPack
    /\ ParkHarvest
    /\ ParkTriage
    /\ ParkCapture
    /\ ParkIngest
    /\ ParkGraph
    /\ ParkState
    /\ ParkHarvestPair
    /\ wb_args \in [force : BOOLEAN, force_fields : ForceFieldArgs, dry_run : BOOLEAN, batch : {1, MaxBatch}]
    /\ wb_prepared \in SeqsUpTo(PreparedUpdates, MaxPrepared)
    /\ wb_columns \in {LANCEDB_FORCE_FIELDS_SET, LANCEDB_FORCE_FIELDS_SET \ {"trust_tier"}}
    /\ wb_table \in [TableIds -> ExternalRows]
    /\ wb_pc = "start"
    /\ wb_force_fields = {}
    /\ wb_i = 0
    /\ wb_item = 0
    /\ wb_summary = ZeroSummary
    /\ wb_totals = ZeroSummary
    /\ wb_batches = <<>>
    /\ wb_exit = NoExit
    /\ wb_out = NoPayload

\* the update the running bridge child is at
CurrentUpdate == wb_prepared[wb_i + wb_item - 1]

\* the number of updates in the batch that starts at index i
ChunkLen(i) == IF i + wb_args.batch - 1 <= Len(wb_prepared) THEN wb_args.batch ELSE Len(wb_prepared) - i + 1

\* the totals after the summary of one child is added
AddSummary(totals, summary) ==
    [checked |-> totals.checked + summary.checked,
     updated |-> totals.updated + summary.updated,
     overwritten |-> totals.overwritten + summary.overwritten,
     overwrittenFields |-> totals.overwrittenFields + summary.overwrittenFields,
     skipped |-> totals.skipped + summary.skipped,
     missing |-> totals.missing + summary.missing,
     errors |-> totals.errors + summary.errors]

\* the final payload
WritebackResult(totals) == [kind |-> "result", ok |-> totals.errors = 0, totals |-> totals]

\* --force-fields names a field outside the allowed set while --force is
\* given: error payload with invalidFields and allowedFields, sys.exit(1)
WritebackRejectsForceFields ==
    /\ wb_pc = "start"
    /\ ~ForceFields(wb_args.force, wb_args.force_fields).ok
    /\ wb_out' = [kind |-> "error", error |-> "invalid --force-fields value(s)"]
    /\ wb_exit' = 1
    /\ wb_pc' = "done"
    /\ UNCHANGED <<wb_args, wb_prepared, wb_columns, wb_table, wb_force_fields, wb_i, wb_item, wb_summary, wb_totals, wb_batches>>
    /\ UNCHANGED notWriteback

\* --lancedb or --table is blank, or the engine directory does not exist
WritebackMissingTarget ==
    /\ wb_pc = "start"
    /\ ForceFields(wb_args.force, wb_args.force_fields).ok
    /\ wb_force_fields' = ForceFields(wb_args.force, wb_args.force_fields).fields
    /\ wb_out' = [kind |-> "error", error |-> "missing target"]
    /\ wb_exit' = 1
    /\ wb_pc' = "done"
    /\ UNCHANGED <<wb_args, wb_prepared, wb_columns, wb_table, wb_i, wb_item, wb_summary, wb_totals, wb_batches>>
    /\ UNCHANGED notWriteback

\* the arguments are accepted: with nothing prepared the command emits its
\* result and returns; otherwise it writes the script file and spawns the
\* child of the first batch
WritebackStart ==
    /\ wb_pc = "start"
    /\ ForceFields(wb_args.force, wb_args.force_fields).ok
    /\ wb_force_fields' = ForceFields(wb_args.force, wb_args.force_fields).fields
    /\ IF wb_prepared = <<>>
       THEN /\ wb_out' = WritebackResult(ZeroSummary)
            /\ wb_exit' = 0
            /\ wb_pc' = "done"
            /\ UNCHANGED <<wb_i, wb_item>>
       ELSE /\ wb_i' = 1
            /\ wb_item' = 1
            /\ wb_pc' = "bridge"
            /\ UNCHANGED <<wb_out, wb_exit>>
    /\ UNCHANGED <<wb_args, wb_prepared, wb_columns, wb_table, wb_summary, wb_totals, wb_batches>>
    /\ UNCHANGED notWriteback

\* the bridge child handles one update: query the row, build the patch,
\* update the table unless dryRun; update_ok is whether table.update returns
BridgeUpdate ==
    /\ wb_pc = "bridge"
    /\ wb_item <= ChunkLen(wb_i)
    /\ LET item == CurrentUpdate
       IN  IF item.id \notin DOMAIN wb_table
           THEN /\ wb_summary' = [wb_summary EXCEPT !.missing = @ + 1]
                /\ UNCHANGED wb_table
           ELSE LET patch == RowPatch(wb_table[item.id], item.updates, wb_columns, wb_args.force, wb_force_fields)
                    written == {name \in LANCEDB_FORCE_FIELDS_SET : patch[name].write}
                    overwrittenFields == Cardinality({name \in written : patch[name].overwritten})
                IN  IF written = {}
                    THEN /\ wb_summary' = [wb_summary EXCEPT !.checked = @ + 1, !.skipped = @ + 1]
                         /\ UNCHANGED wb_table
                    ELSE \E update_ok \in BOOLEAN :
                           IF ~wb_args.dry_run /\ ~update_ok
                           THEN /\ wb_summary' = [wb_summary EXCEPT !.checked = @ + 1, !.errors = @ + 1]
                                /\ UNCHANGED wb_table
                           ELSE /\ wb_summary' = [wb_summary EXCEPT !.checked = @ + 1, !.updated = @ + 1,
                                                      !.overwritten = @ + (IF overwrittenFields > 0 THEN 1 ELSE 0),
                                                      !.overwrittenFields = @ + overwrittenFields]
                                /\ wb_table' = IF wb_args.dry_run THEN wb_table
                                               ELSE [wb_table EXCEPT ![item.id] = ApplyPatch(@, patch)]
    /\ wb_item' = wb_item + 1
    /\ UNCHANGED <<wb_args, wb_prepared, wb_columns, wb_pc, wb_force_fields, wb_i, wb_totals, wb_batches, wb_exit, wb_out>>
    /\ UNCHANGED notWriteback

\* the bridge child has handled its batch and exits 0.  The command parses
\* its output: output that is no JSON, or a summary that is no object, ends
\* the command with an error payload and sys.exit(1); otherwise the summary is
\* added to the totals and the next child is spawned, or, after the last
\* batch, the result is emitted, with sys.exit(1) when total_errors is not 0
BridgeExits ==
    /\ wb_pc = "bridge"
    /\ wb_item > ChunkLen(wb_i)
    /\ \E output \in {"summary", "invalid_json", "malformed_summary"} :
          IF output # "summary"
          THEN /\ wb_batches' = Append(wb_batches, output)
               /\ wb_out' = [kind |-> "error", error |-> output]
               /\ wb_exit' = 1
               /\ wb_pc' = "done"
               /\ UNCHANGED <<wb_totals, wb_i, wb_item, wb_summary>>
          ELSE LET totals == AddSummary(wb_totals, wb_summary)
               IN  /\ wb_batches' = Append(wb_batches, IF wb_summary.errors = 0 THEN "ok" ELSE "errors")
                   /\ wb_totals' = totals
                   /\ wb_summary' = ZeroSummary
                   /\ IF wb_i + wb_args.batch <= Len(wb_prepared)
                      THEN /\ wb_i' = wb_i + wb_args.batch
                           /\ wb_item' = 1
                           /\ UNCHANGED <<wb_pc, wb_out, wb_exit>>
                      ELSE /\ wb_out' = WritebackResult(totals)
                           /\ wb_exit' = IF totals.errors # 0 THEN 1 ELSE 0
                           /\ wb_pc' = "done"
                           /\ UNCHANGED <<wb_i, wb_item>>
    /\ UNCHANGED <<wb_args, wb_prepared, wb_columns, wb_table, wb_force_fields>>
    /\ UNCHANGED notWriteback

\* the bridge child ends with a non-zero exit code (node is missing, the
\* table cannot be opened, a query throws): the command emits "lancedb
\* writeback execution failed" and calls sys.exit(1) inside the loop
BridgeFails ==
    /\ wb_pc = "bridge"
    /\ wb_batches' = Append(wb_batches, "failed")
    /\ wb_out' = [kind |-> "error", error |-> "lancedb writeback execution failed"]
    /\ wb_exit' = 1
    /\ wb_pc' = "done"
    /\ UNCHANGED <<wb_args, wb_prepared, wb_columns, wb_table, wb_force_fields, wb_i, wb_item, wb_summary, wb_totals>>
    /\ UNCHANGED notWriteback

NextWriteback ==
    \/ WritebackRejectsForceFields
    \/ WritebackMissingTarget
    \/ WritebackStart
    \/ BridgeUpdate
    \/ BridgeExits
    \/ BridgeFails

SpecWriteback == InitWriteback /\ [][NextWriteback]_vars

(***************************************************************************)
(* SpecGraph: cmd_graph_index, cmd_graph_pack and cmd_graph_preflight      *)
(*                                                                         *)
(* A text is a sequence of characters; only three kinds of character       *)
(* matter to the budget: a space, a newline, and anything else ("x").      *)
(***************************************************************************)
MaxBudgetTokens == 24

MaxGraphRows == 2

MaxNeighbors == 1

NL == "nl"

Word(n) == [i \in 1..n |-> "x"]

IsSpace(c) == c \in {" ", NL}

RECURSIVE rstrip(_)
rstrip(text) == IF text # <<>> /\ IsSpace(text[Len(text)]) THEN rstrip(SubSeq(text, 1, Len(text) - 1)) ELSE text

RECURSIVE lstrip(_)
lstrip(text) == IF text # <<>> /\ IsSpace(Head(text)) THEN lstrip(Tail(text)) ELSE text

strip(text) == lstrip(rstrip(text))

\* "\n".join(lines)
RECURSIVE JoinLines(_)
JoinLines(lines) ==
    IF lines = <<>> THEN <<>>
    ELSE IF Len(lines) = 1 THEN lines[1]
    ELSE lines[1] \o <<NL>> \o JoinLines(Tail(lines))

\* rows of the observations table as the three commands read them: the
\* lengths of kind, tool_name and summary (already stripped)
GraphRowShapes ==
    {[kind |-> 4, tool_name |-> 0, summary |-> 0],
     [kind |-> 4, tool_name |-> 4, summary |-> 9],
     [kind |-> 4, tool_name |-> 4, summary |-> 30]}

\* "obs:<id>", ids below 10
graph_record_ref == Word(5)

\* summary, else "kind:tool" without a leading or trailing colon
graph_row_title(r) ==
    IF r.summary > 0 THEN Word(r.summary)
    ELSE IF r.tool_name > 0 THEN Word(r.kind + 1 + r.tool_name) ELSE Word(r.kind)

\* "- {recordRef} [{kind}] {tool_name} :: {title}".strip()
IndexLine(r) ==
    strip(Word(1) \o <<" ">> \o graph_record_ref \o <<" ">> \o Word(r.kind + 2) \o <<" ">>
          \o Word(r.tool_name) \o <<" ">> \o Word(2) \o <<" ">> \o graph_row_title(r))

\* "- {recordRef} reason=timeline_adjacent from={refs}".strip(), one supporting ref
SuggestLine(r) ==
    strip(Word(1) \o <<" ">> \o graph_record_ref \o <<" ">> \o Word(24) \o <<" ">> \o Word(5) \o graph_record_ref)

\* "{idx}) {recordRef} ts={ts} [{kind}] {tool_name} :: {summary}".strip()
PackLine(r) ==
    strip(Word(2) \o <<" ">> \o graph_record_ref \o <<" ">> \o Word(23) \o <<" ">> \o Word(r.kind + 2) \o <<" ">>
          \o Word(r.tool_name) \o <<" ">> \o Word(2) \o <<" ">> \o Word(r.summary))

\* the loop over the candidates: the first line is added whatever the
\* budget, a later one only while the estimate stays within it
RECURSIVE IndexCandidates(_, _, _, _)
IndexCandidates(lines, included, cands, budget_tokens) ==
    IF cands = <<>> THEN [lines |-> lines, included |-> included]
    ELSE LET line == IndexLine(Head(cands))
             new_est == estimate_tokens(Len(JoinLines(Append(lines, line))))
         IN IF new_est > budget_tokens /\ included # <<>>
            THEN [lines |-> lines, included |-> included]
            ELSE IndexCandidates(Append(lines, line), Append(included, Head(cands)), Tail(cands), budget_tokens)

\* the loop over the suggestions: a line is added only within the budget
RECURSIVE IndexSuggestions(_, _, _)
IndexSuggestions(lines, suggested, budget_tokens) ==
    IF suggested = <<>> THEN lines
    ELSE LET line == SuggestLine(Head(suggested))
             new_est == estimate_tokens(Len(JoinLines(Append(lines, line))))
         IN IF new_est > budget_tokens THEN lines
            ELSE IndexSuggestions(Append(lines, line), Tail(suggested), budget_tokens)

RECURSIVE PackItems(_, _, _, _)
PackItems(lines, included_items, items, budget_tokens) ==
    IF items = <<>> THEN [lines |-> lines, included |-> included_items]
    ELSE LET line == PackLine(Head(items))
             new_est == estimate_tokens(Len(JoinLines(Append(lines, line))))
         IN IF new_est > budget_tokens /\ included_items # <<>>
            THEN [lines |-> lines, included |-> included_items]
            ELSE PackItems(Append(lines, line), Append(included_items, Head(items)), Tail(items), budget_tokens)

\* the limit of the hard truncation without the room for the newline added back
graph_max_chars_whole(budget_tokens) == Max2(0, budget_tokens * 4)

graph_max_chars(budget_tokens) == Max2(0, budget_tokens * 4 - 3)

\* text[:max_chars].rstrip() + "\n" when the text is longer than max_chars
HardTruncate(text, budget_tokens) ==
    IF Len(text) > graph_max_chars(budget_tokens)
    THEN rstrip(Take(text, graph_max_chars(budget_tokens))) \o <<NL>>
    ELSE text

graph_index_payload(rows, neighbors, scope, query_len, budget_tokens) ==
    LET head == <<Word(12) \o <<" ">> \o Word(3), Word(6) \o <<" ">> \o Word(query_len)>>
                \o (IF scope THEN <<Word(6) \o <<" ">> \o Word(5)>> ELSE <<>>)
                \o <<<<>>, Word(3) \o <<" ">> \o Word(11)>>
        cand == IndexCandidates(head, <<>>, rows, budget_tokens)
        lines == IF neighbors # <<>> /\ rows # <<>>
                 THEN IndexSuggestions(cand.lines \o <<<<>>, Word(9) \o <<" ">> \o Word(4) \o <<" ">> \o Word(11)>>, neighbors, budget_tokens)
                 ELSE cand.lines
        index_text == strip(JoinLines(lines)) \o <<NL>>
    IN [top_candidates |-> cand.included,
        suggested_next_expansions |-> IF rows # <<>> THEN neighbors ELSE <<>>,
        index_text |-> HardTruncate(index_text, budget_tokens)]

\* the rows of the selected refs: included candidates, then every suggestion, at most take
graph_preflight_selection(index_payload, take) ==
    Take(index_payload.top_candidates \o index_payload.suggested_next_expansions, take)

graph_pack_payload(items, budget_tokens, allow_empty) ==
    IF items = <<>> /\ allow_empty THEN [items |-> <<>>, bundle_text |-> <<>>]
    ELSE LET head == <<Word(14) \o <<" ">> \o Word(3), Word(6) \o <<" ">> \o Word(1), <<>>>>
             packed == PackItems(head, <<>>, items, budget_tokens)
             bundle_text == strip(JoinLines(packed.lines)) \o <<NL>>
         IN [items |-> packed.included, bundle_text |-> HardTruncate(bundle_text, budget_tokens)]

InitGraph ==
    /\ ParkRrf
    /\ ParkRetr
    /\ ParkHybrid
    /\ ParkPack
    /\ ParkHarvest
    /\ ParkTriage
    /\ ParkCapture
    /\ ParkIngest
    /\ ParkWriteback
    /\ ParkState
    /\ ParkHarvestPair
    /\ gr_args \in [budget_tokens : 1..MaxBudgetTokens, scope : BOOLEAN, take : {1, 12}]
    /\ gr_rows \in SeqsUpTo(GraphRowShapes, MaxGraphRows)
    /\ gr_neighbors \in SeqsUpTo(GraphRowShapes, MaxNeighbors)
    /\ gr_cmd = "none"
    /\ gr_text = <<>>

\* cmd_graph_index, text output
GraphIndex ==
    /\ gr_cmd = "none"
    /\ gr_cmd' = "index"
    /\ gr_text' = graph_index_payload(gr_rows, gr_neighbors, gr_args.scope, 5, Max2(1, gr_args.budget_tokens)).index_text
    /\ UNCHANGED <<gr_args, gr_rows, gr_neighbors>>
    /\ UNCHANGED notGraph

\* cmd_graph_pack with the ids of gr_rows, text output
GraphPack ==
    /\ gr_cmd = "none"
    /\ gr_rows # <<>>
    /\ gr_cmd' = "pack"
    /\ gr_text' = graph_pack_payload(Take(gr_rows, Max2(1, gr_args.take)), Max2(1, gr_args.budget_tokens), FALSE).bundle_text
    /\ UNCHANGED <<gr_args, gr_rows, gr_neighbors>>
    /\ UNCHANGED notGraph

\* cmd_graph_pack without ids: {"error": "no ids"}, exit 2, no text
GraphPackNoIds ==
    /\ gr_cmd = "none"
    /\ gr_rows = <<>>
    /\ gr_cmd' = "pack_error"
    /\ gr_text' = <<>>
    /\ UNCHANGED <<gr_args, gr_rows, gr_neighbors>>
    /\ UNCHANGED notGraph

\* cmd_graph_preflight, text output: the bundle text of the pack
GraphPreflight ==
    /\ gr_cmd = "none"
    /\ LET budget_tokens == Max2(1, gr_args.budget_tokens)
           index_payload == graph_index_payload(gr_rows, gr_neighbors, gr_args.scope, 5, budget_tokens)
           selected == graph_preflight_selection(index_payload, Max2(1, gr_args.take))
       IN gr_text' = graph_pack_payload(selected, budget_tokens, TRUE).bundle_text
    /\ gr_cmd' = "preflight"
    /\ UNCHANGED <<gr_args, gr_rows, gr_neighbors>>
    /\ UNCHANGED notGraph

NextGraph == GraphIndex \/ GraphPack \/ GraphPackNoIds \/ GraphPreflight

SpecGraph == InitGraph /\ [][NextGraph]_vars

(***************************************************************************)
(* SpecState: _atomic_write_json and _atomic_write                         *)
(*                                                                         *)
(* A file is the version of the state it holds and the number of chunks    *)
(* of it that reached the file; the file is complete with MaxChunks        *)
(* chunks.  Name 0 is the state file, name n the temporary file of the     *)
(* n-th write (NamedTemporaryFile never reuses an existing name).          *)
(***************************************************************************)
MaxWrites == 3

MaxChunks == 2

Writers == {1, 2}

StatePath == 0

NoFile == [version |-> 0 - 1, len |-> 0]

CompleteFile(version) == [version |-> version, len |-> MaxChunks]

\* the file the data is written to, when the write goes to the state file itself
WritePathInPlace(path_, tmp_path) == path_

\* the file the data is written to: the temporary file in the same directory
WritePath(path_, tmp_path) == tmp_path

InitState ==
    /\ ParkRrf
    /\ ParkRetr
    /\ ParkHybrid
    /\ ParkPack
    /\ ParkHarvest
    /\ ParkTriage
    /\ ParkCapture
    /\ ParkIngest
    /\ ParkWriteback
    /\ ParkGraph
    /\ ParkHarvestPair
    /\ \E first \in {NoFile, CompleteFile(0)} : st_dir = [name \in 0..MaxWrites |-> IF name = StatePath THEN first ELSE NoFile]
    /\ st_pc = [w \in Writers |-> "idle"]
    /\ st_tmp = [w \in Writers |-> 0]
    /\ st_writes = 0
    /\ st_loaded = [kind |-> "none"]

\* NamedTemporaryFile(mode="w", dir=path_.parent, delete=False): an empty file
AtomicWriteOpen(w) ==
    /\ st_pc[w] = "idle"
    /\ st_writes < MaxWrites
    /\ st_writes' = st_writes + 1
    /\ st_tmp' = [st_tmp EXCEPT ![w] = st_writes + 1]
    /\ st_dir' = [st_dir EXCEPT ![WritePath(StatePath, st_writes + 1)] = [version |-> st_writes + 1, len |-> 0]]
    /\ st_pc' = [st_pc EXCEPT ![w] = "open"]
    /\ UNCHANGED st_loaded
    /\ UNCHANGED notState

\* json.dump / tmp.write: one more chunk reaches the file
AtomicWriteChunk(w) ==
    /\ st_pc[w] = "open"
    /\ LET target == WritePath(StatePath, st_tmp[w])
       IN /\ st_dir[target].len < MaxChunks
          /\ st_dir' = [st_dir EXCEPT ![target] = [version |-> st_tmp[w], len |-> st_dir[target].len + 1]]
    /\ UNCHANGED <<st_pc, st_tmp, st_writes, st_loaded>>
    /\ UNCHANGED notState

\* the end of the with block: the file is closed with all of its data
AtomicWriteClose(w) ==
    /\ st_pc[w] = "open"
    /\ st_dir[WritePath(StatePath, st_tmp[w])].len = MaxChunks
    /\ st_pc' = [st_pc EXCEPT ![w] = "closed"]
    /\ UNCHANGED <<st_dir, st_tmp, st_writes, st_loaded>>
    /\ UNCHANGED notState

\* tmp_path.replace(path_): one rename
AtomicWriteReplace(w) ==
    /\ st_pc[w] = "closed"
    /\ st_dir' = [st_dir EXCEPT ![StatePath] = st_dir[st_tmp[w]], ![st_tmp[w]] = NoFile]
    /\ st_pc' = [st_pc EXCEPT ![w] = "idle"]
    /\ UNCHANGED <<st_tmp, st_writes, st_loaded>>
    /\ UNCHANGED notState

\* the writer is killed, or json.dump raises: its temporary file stays behind
AtomicWriteInterrupted(w) ==
    /\ st_pc[w] \in {"open", "closed"}
    /\ st_pc' = [st_pc EXCEPT ![w] = "idle"]
    /\ UNCHANGED <<st_dir, st_tmp, st_writes, st_loaded>>
    /\ UNCHANGED notState

\* _load_triage_state: the state file as it is at this moment
LoadState ==
    /\ st_loaded' = [kind |-> "loaded", file |-> st_dir[StatePath]]
    /\ st_loaded' # st_loaded
    /\ UNCHANGED <<st_dir, st_pc, st_tmp, st_writes>>
    /\ UNCHANGED notState

NextState ==
    \/ \E w \in Writers : AtomicWriteOpen(w)
    \/ \E w \in Writers : AtomicWriteChunk(w)
    \/ \E w \in Writers : AtomicWriteClose(w)
    \/ \E w \in Writers : AtomicWriteReplace(w)
    \/ \E w \in Writers : AtomicWriteInterrupted(w)
    \/ LoadState

SpecState == InitState /\ [][NextState]_vars

(***************************************************************************)
(* SpecHarvestPair: cmd_harvest run by two processes at once               *)
(*                                                                         *)
(* cmd_harvest takes no lock: each process runs steps 1 to 6 on the same   *)
(* directory and the same store, and the steps of the two interleave.      *)
(* The store serialises the two writers, so a commit of step 3 is one      *)
(* step.  Steps 4 and 5 touch neither the files nor the rows and are part  *)
(* of the last ingest step.                                                *)
(***************************************************************************)
MaxPairRuns == 3

HarvestProcs == {1, 2}

PairSource == <<"obs", "jsonl">>

IdleProc == [pc |-> "idle", processing_files |-> <<>>, next |-> 1, rotated |-> FALSE, exit |-> "none"]

InitHarvestPair ==
    /\ ParkRrf
    /\ ParkRetr
    /\ ParkHybrid
    /\ ParkPack
    /\ ParkHarvest
    /\ ParkTriage
    /\ ParkCapture
    /\ ParkIngest
    /\ ParkWriteback
    /\ ParkGraph
    /\ ParkState
    /\ hp_now = 0
    /\ hp_live = <<>>
    /\ hp_next_rec = 1
    /\ hp_dir = {}
    /\ hp_store = <<>>
    /\ hp_proc = [p \in HarvestProcs |-> IdleProc]
    /\ hp_runs = 0
    /\ hp_ingests = {}

\* the producer appends one record to the live log
PairLogAppend ==
    /\ hp_next_rec <= MaxRecords
    /\ hp_live' = Append(hp_live, hp_next_rec)
    /\ hp_next_rec' = hp_next_rec + 1
    /\ UNCHANGED <<hp_now, hp_dir, hp_store, hp_proc, hp_runs, hp_ingests>>
    /\ UNCHANGED notHarvestPair

\* one second passes
PairTick ==
    /\ hp_now < MaxClock
    /\ hp_now' = hp_now + 1
    /\ UNCHANGED <<hp_live, hp_next_rec, hp_dir, hp_store, hp_proc, hp_runs, hp_ingests>>
    /\ UNCHANGED notHarvestPair

\* steps 1 and 2 of process p, and the early return when nothing is queued
PairStart(p) ==
    /\ hp_proc[p].pc = "idle"
    /\ hp_runs < MaxPairRuns
    /\ hp_runs' = hp_runs + 1
    /\ LET swept == SweepFiles(PairSource, hp_dir)
           pname == ProcessingName(PairSource, hp_now)
       IN  IF hp_live # <<>>
           THEN /\ hp_dir' = RenameInto(hp_dir, [name |-> pname, lines |-> hp_live])
                /\ hp_live' = <<>>
                /\ hp_proc' = [hp_proc EXCEPT ![p] = [pc |-> "ingest", processing_files |-> AppendAndSort(swept, pname),
                                                      next |-> 1, rotated |-> TRUE, exit |-> "none"]]
           ELSE /\ hp_proc' = [hp_proc EXCEPT ![p] = IF swept = <<>> THEN [IdleProc EXCEPT !.exit = "exit0"]
                                                     ELSE [pc |-> "ingest", processing_files |-> swept,
                                                           next |-> 1, rotated |-> FALSE, exit |-> "none"]]
                /\ UNCHANGED <<hp_dir, hp_live>>
    /\ UNCHANGED <<hp_now, hp_next_rec, hp_store, hp_ingests>>
    /\ UNCHANGED notHarvestPair

\* step 3 of process p for one file: every line is inserted and the file is
\* committed
PairIngestFile(p) ==
    /\ hp_proc[p].pc = "ingest"
    /\ LET name == hp_proc[p].processing_files[hp_proc[p].next]
       IN  /\ HasFile(hp_dir, name)
           /\ hp_store' = hp_store \o FileNamed(hp_dir, name).lines
           /\ hp_ingests' = hp_ingests \cup {[proc |-> p, file |-> FileNamed(hp_dir, name)]}
    /\ hp_proc' = [hp_proc EXCEPT ![p].next = IF @ = Len(hp_proc[p].processing_files) THEN 1 ELSE @ + 1,
                                  ![p].pc = IF hp_proc[p].next = Len(hp_proc[p].processing_files) THEN "archive" ELSE "ingest"]
    /\ UNCHANGED <<hp_now, hp_live, hp_next_rec, hp_dir, hp_runs>>
    /\ UNCHANGED notHarvestPair

\* step 3 of process p finds the file gone (the other process finalized
\* it): open raises, error payload, exit code 1
PairIngestFails(p) ==
    /\ hp_proc[p].pc = "ingest"
    /\ ~HasFile(hp_dir, hp_proc[p].processing_files[hp_proc[p].next])
    /\ hp_proc' = [hp_proc EXCEPT ![p] = [IdleProc EXCEPT !.exit = "exit1"]]
    /\ UNCHANGED <<hp_now, hp_live, hp_next_rec, hp_dir, hp_store, hp_runs, hp_ingests>>
    /\ UNCHANGED notHarvestPair

\* step 6 of process p for one file (unlink), and the payload after the last
PairArchiveFile(p) ==
    /\ hp_proc[p].pc = "archive"
    /\ LET name == hp_proc[p].processing_files[hp_proc[p].next]
       IN  /\ HasFile(hp_dir, name)
           /\ hp_dir' = RemoveFile(hp_dir, name)
    /\ hp_proc' = [hp_proc EXCEPT ![p] = IF hp_proc[p].next = Len(hp_proc[p].processing_files)
                                         THEN [IdleProc EXCEPT !.exit = "exit0"]
                                         ELSE [@ EXCEPT !.next = @ + 1]]
    /\ UNCHANGED <<hp_now, hp_live, hp_next_rec, hp_store, hp_runs, hp_ingests>>
    /\ UNCHANGED notHarvestPair

\* step 6 of process p finds the file gone: unlink raises, error payload,
\* exit code 1
PairArchiveFails(p) ==
    /\ hp_proc[p].pc = "archive"
    /\ ~HasFile(hp_dir, hp_proc[p].processing_files[hp_proc[p].next])
    /\ hp_proc' = [hp_proc EXCEPT ![p] = [IdleProc EXCEPT !.exit = "exit1"]]
    /\ UNCHANGED <<hp_now, hp_live, hp_next_rec, hp_dir, hp_store, hp_runs, hp_ingests>>
    /\ UNCHANGED notHarvestPair

NextHarvestPair ==
    \/ PairLogAppend
    \/ PairTick
    \/ \E p \in HarvestProcs : PairStart(p)
    \/ \E p \in HarvestProcs : PairIngestFile(p)
    \/ \E p \in HarvestProcs : PairIngestFails(p)
    \/ \E p \in HarvestProcs : PairArchiveFile(p)
    \/ \E p \in HarvestProcs : PairArchiveFails(p)

SpecHarvestPair == InitHarvestPair /\ [][NextHarvestPair]_vars

(***************************************************************************)
(* SpecRrf: rank_rrf applied to bounded inputs                             *)
(***************************************************************************)
RrfInputs ==
    /\ ranked_lists \in SeqsUpTo(SeqsUpTo(Ids, MaxListLen), MaxLists)
    /\ rrf_k \in 0..MaxK
    /\ rrf_limit \in {1, MaxId}

InitRrf ==
    /\ rrf_pc = "input"
    /\ RrfInputs
    /\ rrf_out = <<>>
    /\ ParkRetr
    /\ ParkHybrid
    /\ ParkPack
    /\ ParkHarvest
    /\ ParkTriage
    /\ ParkCapture
    /\ ParkIngest
    /\ ParkWriteback
    /\ ParkGraph
    /\ ParkState
    /\ ParkHarvestPair

RunRankRrf ==
    /\ rrf_pc = "input"
    /\ rrf_out' = rank_rrf(ranked_lists, rrf_k, rrf_limit)
    /\ rrf_pc' = "done"
    /\ UNCHANGED <<ranked_lists, rrf_k, rrf_limit>>
    /\ UNCHANGED notRrf

NextRrf == RunRankRrf

SpecRrf == InitRrf /\ [][NextRrf]_vars

(***************************************************************************)
(* C9.  rank_rrf adds 1/(k + r + 1) per 0-based position r, sorts by       *)
(* accumulator descending and breaks ties by ascending id.                 *)
(* Stated on the returned list: every pair carries the accumulator of its  *)
(* id, and of two entries the earlier one has the larger accumulator or,   *)
(* on equal accumulators, the smaller id.                                  *)
(***************************************************************************)
C9_RrfSortedTiesAscendingId ==
    rrf_pc = "done" =>
        /\ \A i \in 1..Len(rrf_out) :
               rrf_out[i][2] = RrfScore(ranked_lists, rrf_out[i][1], rrf_k, 1)
        /\ \A i, j \in 1..Len(rrf_out) :
               i < j =>
                   \/ rrf_out[i][2] > rrf_out[j][2]
                   \/ (rrf_out[i][2] = rrf_out[j][2] /\ rrf_out[i][1] < rrf_out[j][1])
(***************************************************************************)
(* C10.  With reranking enabled, every failure path (unsupported provider, *)
(* missing API key, an exception of the provider call, a response without  *)
(* usable rows) fails open: cmd_hybrid emits the base RRF ordering, cut to *)
(* the limit and to ids with a row, sets rerank_provider on each result    *)
(* and sets no rank_stage.                                                 *)
(***************************************************************************)
RerankFailed ==
    /\ rerank_provider # "none"
    /\ \/ rerank_provider \notin {"jina", "cohere"}
       \/ ~rerank_key
       \/ rerank_outcome.kind = "exception"
       \/ (rerank_outcome.kind = "rows" /\ rerank_outcome.rows = <<>>)

RECURSIVE KeepIds(_, _)
KeepIds(ids, keep) ==
    IF ids = <<>> THEN <<>>
    ELSE (IF Head(ids) \in keep THEN <<Head(ids)>> ELSE <<>>) \o KeepIds(Tail(ids), keep)

RECURSIVE IncludedBefore(_)
IncludedBefore(p) ==
    IF p <= 1 THEN 0
    ELSE IncludedBefore(p - 1) + (IF candidate_trace[p - 1].included THEN 1 ELSE 0)

RECURSIVE TokensBefore(_)
TokensBefore(p) ==
    IF p <= 1 THEN 0
    ELSE TokensBefore(p - 1)
         + (IF candidate_trace[p - 1].included
            THEN estimate_tokens(obs_table[candidate_trace[p - 1].id]) ELSE 0)

HasText(rid) == obs_table[rid] # NoRow /\ obs_table[rid] > 0

DecisionReasonVocabulary ==
    {"missing_row", "missing_summary", "max_items_reached", "budget_tokens_exceeded",
     "within_item_limit", "within_budget", "matched_fts", "matched_vector"}

ExclusionReasons ==
    {"missing_row", "missing_summary", "max_items_reached", "budget_tokens_exceeded"}

CeilDiv4(n) == (n + 3) \div 4

RECURSIVE MaxOver(_, _)
MaxOver(S, acc) ==
    IF S = {} THEN acc
    ELSE LET x == CHOOSE y \in S : TRUE IN MaxOver(S \ {x}, Max2(acc, x))

WorstItemTokens ==
    MaxOver({CeilDiv4(BundleLineLen(rid, obs_table[rid]) + 1) :
                 rid \in {r \in Ids : obs_table[r] # NoRow}}, 0)

RECURSIVE CountIn(_, _)
CountIn(s, x) ==
    IF s = <<>> THEN 0 ELSE (IF Head(s) = x THEN 1 ELSE 0) + CountIn(Tail(s), x)

WrittenRecords == 1..(next_rec - 1)

StillQueued(r) ==
    \/ r \in Range(live_log)
    \/ \E f \in log_dir :
           /\ r \in Range(f.lines)
           /\ \/ GlobMatches(source_name, f.name)
              \/ f.name \in Range(hv_run.processing_files)

C1_NoLossNoDoubleIngest ==
    hv_pc # "parked" =>
        \A r \in WrittenRecords :
            /\ CountIn(store, r) <= 1
            /\ CountIn(store, r) = 0 => StillQueued(r)

(***************************************************************************)
(* C2.  A run interrupted between rotation and archival is safe: the       *)
(* sweep of the next run picks up every file left as .processing, the      *)
(* file rotation made from the configured log path included.  As a state   *)
(* property: right after steps 1 and 2 of a run every file beside the log  *)
(* is queued, and a run that reports "source empty/missing" leaves none.   *)
(***************************************************************************)
C2_SweepFindsEveryProcessingFile ==
    /\ (hv_pc = "ingest" /\ hv_run.next = 1) =>
           \A f \in log_dir : f.name \in Range(hv_run.processing_files)
    /\ (hv_pc = "idle" /\ hv_receipt.kind = "empty") => log_dir = {}

(***************************************************************************)
(* C3.  A run that finds a <log>.<ts>.processing file and no live log at   *)
(* startup ingests every record of that file, reports recovered = true and *)
(* rotated = false, and archives the file.  Stated for every such run:     *)
(* once it is past the ingest step the records of the file are committed,  *)
(* and when it has emitted its receipt the flags are as claimed, the file  *)
(* is gone from beside the log and, with --archive-dir, in the archive.    *)
(***************************************************************************)
StartedOnOrphansOnly == hv_start.orphans # {} /\ ~hv_start.live

RECURSIVE LinesOf(_)
LinesOf(files) ==
    IF files = {} THEN 0
    ELSE LET f == CHOOSE g \in files : TRUE IN Len(f.lines) + LinesOf(files \ {f})

C3_OrphanRecovered ==
    /\ (StartedOnOrphansOnly /\ hv_pc \in {"index", "embed", "archive", "emit"}) =>
           \A f \in hv_start.orphans : \A r \in Range(f.lines) : CountIn(store, r) >= 1
    /\ (StartedOnOrphansOnly /\ hv_pc = "idle" /\ hv_exit = "exit0") =>
           /\ hv_receipt.kind = "harvest"
           /\ hv_receipt.recovered
           /\ ~hv_receipt.rotated
           /\ hv_receipt.processed_files = Cardinality(hv_start.orphans)
           /\ hv_receipt.ingested = LinesOf(hv_start.orphans)
           /\ \A f \in hv_start.orphans :
                  /\ \A r \in Range(f.lines) : CountIn(store, r) >= 1
                  /\ ~HasFile(log_dir, f.name)
                  /\ archive_dir => f \in archive_files

\* C3 witness: a rotated file was orphaned by an interrupt, the next run
\* started without a live log and archived it
C3_Witness ==
    /\ hv_pc = "idle"
    /\ hv_exit = "exit0"
    /\ StartedOnOrphansOnly
    /\ archive_dir
    /\ hv_receipt.kind = "harvest"
    /\ hv_receipt.recovered
    /\ ~hv_receipt.rotated
    /\ hv_receipt.ingested >= 1
    /\ \E f \in hv_start.orphans : f \in archive_files /\ f.lines # <<>>

(***************************************************************************)
(* C4.  A triage run reports only items strictly newer than the stored     *)
(* watermarks.  If it reports any, it exits 10 and advances the watermarks *)
(* so that an immediate second run over unchanged data reports nothing new *)
(* and exits 0; if it reports none, it exits 0.  Stated on the last run    *)
(* with a valid mode: what it reported against the watermarks it read, its *)
(* exit code, the watermarks it left, and, for a run made with the same    *)
(* arguments while no observation or cron result was written since the     *)
(* run before, an empty report and exit code 0.                            *)
(***************************************************************************)
C4_TriageDedupes ==
    (tri_last.kind = "run" /\ tri_mode \in TriageModes) =>
        LET reported == tri_last.obs_new # {} \/ tri_last.tasks_new # {} \/ tri_last.cron_new # {}
        IN  /\ \A i \in tri_last.obs_new : i > tri_last.before.observations
            /\ \A i \in tri_last.tasks_new : i > tri_last.before.tasks
            /\ \A t \in tri_last.cron_new : t > tri_last.before.cron
            /\ tri_last.exit = IF reported THEN 10 ELSE 0
            /\ \A i \in tri_last.obs_new : tri_state.observations >= i
            /\ \A i \in tri_last.tasks_new : tri_state.tasks >= i
            /\ \A t \in tri_last.cron_new : tri_state.cron >= t
            /\ tri_last.repeat => (~reported /\ tri_last.exit = 0)

\* C4 witness: the run before exited 10, nothing was written since, and the
\* second run exits 0 although a keyword match and a task are still in
\* their windows
C4_Witness ==
    /\ tri_last.kind = "run"
    /\ tri_mode = "heartbeat"
    /\ tri_last.repeat
    /\ tri_last.prev_exit = 10
    /\ tri_last.exit = 0
    /\ triage_observations(tri_obs, tri_now - TriageWindow, TriageLimit(tri_limit)) # <<>>
    /\ triage_tasks(tri_obs, tri_now - TasksWindow, TriageLimit(tri_limit)) # <<>>
    /\ tri_state.observations > 0
    /\ tri_state.tasks > 0

\* C5: both capture tools are idempotent: a run of commit capture made
\* while the repository is unchanged since the last completed commit
\* capture, and a run of Markdown section capture made while the file is
\* unchanged since the last completed section capture, insert no new
\* observation.
C5_CaptureIdempotent == (git_last.repeat => git_last.inserted = 0) /\ (md_last.repeat => md_last.inserted = 0)

(***************************************************************************)
(* C11.  When reranking succeeds (rerank_applied), the final ordering is   *)
(* the provider's winning candidates ordered by the provider's score,      *)
(* followed by all non-winning candidates in their original RRF order, and *)
(* it is a permutation of the base RRF ordering: no candidate is lost or   *)
(* duplicated.                                                             *)
(***************************************************************************)
RerankSucceeded == hy_pc = "done" /\ hy_state.rerank_applied

IsPermutationOf(a, b) ==
    /\ Len(a) = Len(b)
    /\ Range(a) = Range(b)
    /\ \A i, j \in 1..Len(a) : i # j => a[i] # a[j]

C12_InsertAtomic == \A i \in 1..Len(ins_db) : ins_db[i].fts

(***************************************************************************)
(* C13.  Harvest ingests the queued .processing files in ascending         *)
(* filename order, so older files are processed before newer ones; a file  *)
(* rotated in the same run comes after all recovered files; and harvest    *)
(* commits after each file: while the run ingests, the records it has      *)
(* committed are exactly the lines of the files it has finished, in queue  *)
(* order.                                                                  *)
(***************************************************************************)
RECURSIVE QueuedLines(_, _)
QueuedLines(names, n) ==
    IF n = 0 THEN <<>>
    ELSE QueuedLines(names, n - 1) \o FileNamed(log_dir, names[n]).lines

HarvestIngesting == hv_pc \in {"ingest", "index"}

C13_HarvestFileOrder ==
    HarvestIngesting =>
        LET files == hv_run.processing_files
        IN  /\ \A i, j \in 1..Len(files) : i < j => files[i].ts <= files[j].ts
            /\ \A i \in 1..Len(files) : files[i].base = files[1].base
            /\ hv_run.rotated =>
                   /\ files[Len(files)] = ProcessingName(source_name, hv_now)
                   /\ \A i \in 1..Len(files) : files[i].ts <= hv_now
            /\ hv_run.inserted = Len(QueuedLines(files, hv_run.next - 1))
            /\ hv_run.inserted <= Len(store)
            /\ SubSeq(store, Len(store) - hv_run.inserted + 1, Len(store)) = QueuedLines(files, hv_run.next - 1)

C13_Witness ==
    /\ hv_pc = "ingest"
    /\ hv_run.recovered
    /\ hv_run.rotated
    /\ Len(hv_run.processing_files) = 2
    /\ hv_run.processing_files[1].ts < hv_run.processing_files[2].ts
    /\ hv_run.next = 2
    /\ hv_run.inserted >= 1

\* C14: a failure of the index refresh or of the embedding step, a missing
\* API key included, does not stop a harvest run: the step after the embedding
\* step is the finalization of the processed files, and a run that reaches its
\* receipt after such a failure has every processed file out of the log
\* directory while the records it inserted are still the tail of the store.
C14_EmbedIndexFailOpen ==
    /\ [][(hv_pc = "embed" /\ hv_pc' # "embed" /\ hv_exit' # "interrupted") => hv_pc' = "archive"]_vars
    /\ [](hv_pc = "emit" /\ (hv_run.index_warning \/ hv_run.embed_error # "none") =>
            /\ \A i \in 1..Len(hv_run.processing_files) : ~HasFile(log_dir, hv_run.processing_files[i])
            /\ hv_run.inserted <= Len(store))

\* C15: a harvest run that is about to emit its receipt after a fail-open
\* failure shows the failure in that receipt: the receipt of a run whose
\* index refresh failed, or whose embedding step failed, differs from the
\* receipt the same run would emit without that failure.
C15_FailuresInReceipt ==
    hv_pc = "emit" =>
        /\ (hv_run.embed_error # "none" =>
                HarvestReceipt(hv_run) # HarvestReceipt([hv_run EXCEPT !.embed_error = "none"]))
        /\ (hv_run.index_warning =>
                HarvestReceipt(hv_run) # HarvestReceipt([hv_run EXCEPT !.index_warning = FALSE]))

\* C16: when the importance grader raises for a record, the call of
\* _insert_observation that returns has emitted one warning, has added the
\* observation to the transaction without an importance (and with its
\* full-text row), and, in a command that keeps a run summary (ingest,
\* harvest), has counted the record in total_seen and in scorer_errors and in
\* no other counter.
GraderFailedInsert(last) == last.kind = "insert" /\ last.grader = "raises" /\ last.sql = "ok"

C16_GraderFailOpen ==
    [][(ins_last' # ins_last /\ GraderFailedInsert(ins_last')) =>
           /\ ins_warnings' = ins_warnings + 1
           /\ ins_tx' = Append(ins_tx, [importance |-> "absent", fts |-> TRUE])
           /\ (HasRunSummary(ins_cmd) =>
                  ins_summary' = [ins_summary EXCEPT !.total_seen = @ + 1, !.scorer_errors = @ + 1])
           /\ (~HasRunSummary(ins_cmd) => ins_summary' = ins_summary)]_vars

C16_Witness ==
    /\ ins_cmd = "ingest"
    /\ ins_pc = "done"
    /\ GraderFailedInsert(ins_last)
    /\ ins_summary.scorer_errors >= 1
    /\ ins_warnings >= 1
    /\ ins_db # <<>>
    /\ ins_db[Len(ins_db)].importance = "absent"

\* C17: a record that comes in with detail.importance is counted as
\* skipped_existing, the grader is not called for it, and the observation
\* added to the transaction holds that importance unchanged; the grader's
\* importance is attached only to a record that came in with none.
C17_ExistingImportanceKept ==
    [][(ins_last' # ins_last /\ ins_last'.kind = "insert" /\ ins_last'.sql = "ok") =>
           /\ (ins_last'.rec.detail = "detail" =>
                  /\ ins_last'.grader = "not_called"
                  /\ ins_tx' = Append(ins_tx, [importance |-> "detail", fts |-> TRUE])
                  /\ (HasRunSummary(ins_cmd) =>
                         ins_summary'.skipped_existing = ins_summary.skipped_existing + 1))
           /\ (ins_last'.importance = "graded" =>
                  ins_last'.rec.detail = "absent" /\ ins_last'.rec.extra = "absent")]_vars

\* C19: a run of writeback-lancedb whose --force-fields value names a field
\* outside the allowed set ends with a validation error payload and exit code
\* 2, and no bridge child was spawned in it.
InvalidForceFields == wb_args.force_fields.requested \ LANCEDB_FORCE_FIELDS_SET # {}

C19_InvalidForceFieldsRejected ==
    (wb_pc = "done" /\ InvalidForceFields) =>
        /\ wb_out.kind = "error"
        /\ wb_out.error = "invalid --force-fields value(s)"
        /\ wb_exit = 2
        /\ wb_batches = <<>>
        /\ wb_i = 0

\* C20: when a bridge child fails for a batch, the failure is recorded for
\* that batch, every remaining batch still gets its child, and the command
\* exits 1 at the end; the command exits 0 only if every batch got a child
\* that reported zero errors.
NumBatches == (Len(wb_prepared) + wb_args.batch - 1) \div wb_args.batch

C20_BatchFailureContinues ==
    (wb_pc = "done" /\ wb_i > 0) =>
        /\ ((\E b \in 1..Len(wb_batches) : wb_batches[b] # "ok") =>
               /\ Len(wb_batches) = NumBatches
               /\ wb_exit = 1)
        /\ (wb_exit = 0 =>
               /\ Len(wb_batches) = NumBatches
               /\ \A b \in 1..Len(wb_batches) : wb_batches[b] = "ok")

\* C18: whenever a field of a row of the external table changes, a bridge
\* child is handling an update for that row, and the value the field had was
\* empty, or overwrite is enabled for that field (--force with the field
\* among the force fields) and the incoming value differs from the value the
\* field had.
EmptyValue(value) == value.kind \in {"null", "undefined"} \/ (value.kind = "str" /\ value.text = "")

C18_WriteOnlyIfEmptyOrForced ==
    [][\A id \in TableIds : \A name \in LANCEDB_FORCE_FIELDS_SET :
          wb_table'[id][name] # wb_table[id][name] =>
              /\ wb_pc = "bridge"
              /\ CurrentUpdate.id = id
              /\ wb_table'[id][name] = CurrentUpdate.updates[name]
              /\ \/ EmptyValue(wb_table[id][name])
                 \/ /\ wb_args.force
                    /\ name \in wb_force_fields
                    /\ CurrentUpdate.updates[name] # wb_table[id][name]]_vars

C18_Witness ==
    /\ wb_pc = "done"
    /\ wb_exit = 0
    /\ wb_args.force
    /\ wb_force_fields = {"importance"}
    /\ wb_prepared # <<>>
    /\ wb_table[1].importance = Num(10)
    /\ wb_table[1].importance_label = Str("ignore", FALSE)
    /\ wb_table[1].trust_tier = Str("trusted", FALSE)
    /\ wb_out.kind = "result"
    /\ wb_out.totals.overwrittenFields = 1

\* C21 as stated: the commits a capture run reads are commits of the log
\* since the later of the stored last-seen author timestamp and the start of
\* the lookback window, and there are at most max_commits of them.
NewlyRead == git_seen' \ git_seen

C21_ReadsSinceLaterOf ==
    [][/\ \A sha \in NewlyRead : git_commits[sha].cdate >= Max2(git_state.last_author_ts, cap_now - CaptureWindow)
       /\ Cardinality(NewlyRead) <= Max2(1, git_max_commits)]_vars

\* C21 as amended: a capture run reads the log since the stored last-seen
\* author timestamp when the state holds one, and since the start of the
\* lookback window only when it holds none; it reads at most max_commits
\* commits, none older than a commit of that log it does not read because of
\* the cap, and it always reads the newest commit of that log.
CaptureSince == IF git_state.last_author_ts # NoTs THEN git_state.last_author_ts ELSE cap_now - CaptureWindow

InLogSince(sha) == git_commits[sha].cdate >= CaptureSince

C21_ReadsSinceStateElseWindow ==
    [][/\ \A sha \in NewlyRead : InLogSince(sha)
       /\ Cardinality(NewlyRead) <= Max2(1, git_max_commits)
       /\ \A sha \in NewlyRead :
              Cardinality({other \in 1..Len(git_commits) : InLogSince(other) /\ other > sha}) < Max2(1, git_max_commits)
       /\ (git_last' # git_last /\ git_last'.exit = "exit0") =>
              \A sha \in 1..Len(git_commits) :
                  (InLogSince(sha) /\ \A other \in 1..Len(git_commits) : InLogSince(other) => other <= sha)
                      => sha \in git_seen']_vars

C21_Witness ==
    /\ cap_tool = "git"
    /\ git_max_commits = 50
    /\ git_last.exit = "exit0"
    /\ git_last.inserted = 1
    /\ Len(cap_obs) = 2
    /\ git_state.last_author_ts = 0
    /\ cap_now = MaxCapTick
    /\ \E sha \in git_seen : git_commits[sha].cdate < cap_now - CaptureWindow

(***************************************************************************)
(* C22: for every budget_tokens >= 1 the text emitted by graph index,      *)
(* graph pack and graph preflight has an estimated token count,            *)
(* max(1, ceil(len / 4)), that does not exceed budget_tokens.              *)
(***************************************************************************)
GraphEmitted == gr_cmd \in {"index", "pack", "preflight"}

C22_TextWithinBudget ==
    GraphEmitted => estimate_tokens(Len(gr_text)) <= gr_args.budget_tokens

\* C22 witness: graph index cut its text at 4 * budget_tokens - 3 characters
\* and added the newline back, so that the estimate is exactly the budget
C22_Witness ==
    /\ gr_cmd = "index"
    /\ gr_args.budget_tokens = 3
    /\ gr_rows # <<>>
    /\ Len(gr_text) = 4 * gr_args.budget_tokens - 2
    /\ estimate_tokens(Len(gr_text)) = gr_args.budget_tokens

(***************************************************************************)
(* C23: state files are written via atomic rename: a write interrupted at  *)
(* any point leaves the state file holding either the complete old state   *)
(* or the complete new state, never a partial file.                        *)
(***************************************************************************)
WholeFile(file) == file = NoFile \/ file.len = MaxChunks

C23_OldOrNewNeverPartial ==
    [][/\ \/ st_dir'[StatePath] = st_dir[StatePath]
          \/ \E w \in Writers : st_pc[w] = "closed" /\ st_dir'[StatePath] = CompleteFile(st_tmp[w])
       /\ WholeFile(st_dir'[StatePath])
       /\ (st_loaded' # st_loaded) => WholeFile(st_loaded'.file)]_vars

\* C23 witness: the first write replaced the state file, a later write was
\* interrupted with part of its data written, and the state file still
\* holds the whole of the first write
C23_Witness ==
    /\ st_dir[StatePath] = CompleteFile(1)
    /\ \E name \in 2..MaxWrites : st_dir[name].len = 1 /\ \A w \in Writers : st_pc[w] = "idle"
    /\ st_loaded = [kind |-> "loaded", file |-> CompleteFile(1)]

(***************************************************************************)
(* C24: if two harvest processes run concurrently on the same log, no      *)
(* `.processing` file has its records ingested by both processes.          *)
(***************************************************************************)
C24_NoFileIngestedByBoth ==
    \A a \in hp_ingests, b \in hp_ingests : a.file = b.file => a.proc = b.proc

(***************************************************************************)
(* C25: rotation never renames the live log onto an existing               *)
(* `.processing` file: the name chosen for a rotated file is distinct      *)
(* from the name of every not-yet-finalized `.processing` file, so no      *)
(* un-ingested file is overwritten.                                        *)
(***************************************************************************)
Rotates == hv_runs' # hv_runs /\ live_log # <<>> /\ live_log' = <<>>

C25_RotationNameIsFresh ==
    [][Rotates => /\ ~HasFile(log_dir, ProcessingName(source_name, hv_now))
                  /\ \A f \in log_dir : f \in log_dir']_vars

(***************************************************************************)
(* C26: a queued file whose ingest fails (for example because of a         *)
(* malformed JSON line) does not block progress: later harvest runs still  *)
(* ingest and finalize the other queued files and newly rotated logs, and  *)
(* files already committed before the failure are not ingested again.      *)
(* Stated for a later run, one that found the malformed file queued when   *)
(* it started: when it ends at that file, the well-formed files of its     *)
(* queue are finalized; and no step of it commits a record the store       *)
(* already holds.                                                          *)
(***************************************************************************)
Malformed(file) == Bad \in Range(file.lines)

LaterRun == \E f \in hv_start.orphans : Malformed(f)

AtMalformedFile ==
    /\ hv_pc = "ingest"
    /\ hv_run.next <= Len(hv_run.processing_files)
    /\ HasFile(log_dir, hv_run.processing_files[hv_run.next])
    /\ Malformed(FileNamed(log_dir, hv_run.processing_files[hv_run.next]))

C26_FailedFileDoesNotBlock ==
    [][/\ (LaterRun /\ AtMalformedFile /\ hv_pc' = "idle" /\ hv_exit' = "exit1")
              => \A g \in log_dir : (~Malformed(g) /\ g.name \in Range(hv_run.processing_files)) => g \notin log_dir'
       /\ (LaterRun /\ hv_pc = "ingest" /\ store' # store)
              => \A i \in Len(store) + 1..Len(store') : store'[i] \notin Range(store)]_vars

(***************************************************************************)
(* C27: every observation or task that matches the triage criteria is      *)
(* eventually reported by some triage run made while it is inside the      *)
(* scan window, even when more than `limit` new matching items exist at    *)
(* the time of a run: advancing a watermark never skips an unreported      *)
(* matching item with a smaller id.  An item at or below the watermark is  *)
(* never reported again, so the claim holds only if every matching item    *)
(* of the window that a run's new watermark passes is in that run's        *)
(* report.                                                                 *)
(***************************************************************************)
PassedBy(before, after) == {i \in DOMAIN tri_obs : before < i /\ i <= after}

C27_WatermarkSkipsNothing ==
    [][/\ \A i \in PassedBy(tri_state.observations, tri_state'.observations) :
              (tri_obs[i].kind = "error" /\ tri_obs[i].ts >= tri_now - TriageWindow) => i \in tri_last'.obs_new
       /\ \A i \in PassedBy(tri_state.tasks, tri_state'.tasks) :
              (tri_obs[i].kind = "task" /\ tri_obs[i].ts >= tri_now - TasksWindow) => i \in tri_last'.tasks_new]_vars

(***************************************************************************)
(* C29: triage watermarks never decrease across runs, and a run leaves     *)
(* unchanged the watermark of every stream in which it reported nothing    *)
(* new, including streams that the selected mode did not scan.             *)
(***************************************************************************)
TriageStreams == {"observations", "tasks", "cron"}

ScannedBy(mode) ==
    IF mode = "heartbeat" THEN TriageStreams
    ELSE IF mode = "cron-errors" THEN {"cron"} ELSE {mode}

ReportedNew(run, stream) ==
    IF stream = "observations" THEN run.obs_new
    ELSE IF stream = "tasks" THEN run.tasks_new ELSE run.cron_new

C29_WatermarksMonotone ==
    [][\A stream \in TriageStreams :
           /\ tri_state'[stream] >= tri_state[stream]
           /\ tri_state'[stream] # tri_state[stream]
                  => /\ ReportedNew(tri_last', stream) # {}
                     /\ stream \in ScannedBy(tri_mode)]_vars

\* C29 witness: a run in mode tasks reported a new task and moved the tasks
\* watermark, while the watermarks that earlier runs had set for the
\* observations and for cron, which this mode does not scan, stayed
C29_Witness ==
    /\ tri_mode = "tasks"
    /\ tri_last.kind = "run"
    /\ tri_last.tasks_new # {}
    /\ tri_state.tasks > tri_last.before.tasks
    /\ tri_state.observations > 0
    /\ tri_state.cron > 0
    /\ tri_state.observations = tri_last.before.observations
    /\ tri_state.cron = tri_last.before.cron

(***************************************************************************)
(* C28: every commit authored after the stored per-repo watermark is       *)
(* eventually captured by some commit-capture run, even when more than     *)
(* max_commits new commits exist at the time of a run: advancing           *)
(* last_author_ts never skips an uncaptured older commit.  A later run     *)
(* reads the log since the new watermark only, so the claim holds only if  *)
(* every commit authored after the old watermark and before the new one    *)
(* is captured when the watermark moves.                                   *)
(***************************************************************************)
AuthoredBetween(before, after) ==
    {sha \in 1..Len(git_commits) : before < git_commits[sha].adate /\ git_commits[sha].adate < after}

C28_WatermarkSkipsNoCommit ==
    [][(git_state.last_author_ts # NoTs /\ git_state'.last_author_ts # git_state.last_author_ts)
           => \A sha \in AuthoredBetween(git_state.last_author_ts, git_state'.last_author_ts) : sha \in git_seen']_vars

(***************************************************************************)
(* C30: if a capture run (commit capture or Markdown section capture) is   *)
(* interrupted after its database commit but before its state file is      *)
(* written, the next run inserts no duplicate observation for any commit   *)
(* or section that the interrupted run already captured.                   *)
(***************************************************************************)
\* the observations the latest run of the tool inserted: the last ones of the table
CapturedByLast(run) == {cap_obs[i] : i \in (Len(cap_obs) - run.inserted + 1)..Len(cap_obs)}

InsertedNow == {cap_obs'[i] : i \in (Len(cap_obs) + 1)..Len(cap_obs')}

C30_NoDuplicateAfterInterrupt ==
    [][/\ git_last.exit = "interrupted" => InsertedNow \cap CapturedByLast(git_last) = {}
       /\ md_last.exit = "interrupted" => InsertedNow \cap CapturedByLast(md_last) = {}]_vars

\* C30 witness: the run of capture-md before this one was interrupted after
\* it had committed two sections (the file has not changed since and is
\* scanned again, which happens only when its mtime never reached the state
\* file); this run skipped both sections and wrote the state file
C30_Witness ==
    /\ cap_tool = "md"
    /\ md_last.exit = "exit0"
    /\ md_last.repeat
    /\ md_last.inserted = 0
    /\ md_last.skipped_existing = 2
    /\ Len(cap_obs) = 2
    /\ md_state = md_file.mtime

====
